---------------------------- MODULE Spec2Model ----------------------------
(***************************************************************************)
(* The simulation engine of riskystrats-server: Game (commands, tick and   *)
(* router), MapArmy (the per-tick army step and combat) and MapNode        *)
(* (production), over a small fixed map.                                   *)
(*                                                                         *)
(* A game is the record [nodes, armies, armyCounter, tickNumber]; every    *)
(* method of Game is an operator from a game (and the method's arguments)  *)
(* to the game it leaves and the value it returns.  The session layer      *)
(* (Room.runGame) calls one method per event and runs it to completion:    *)
(* `call' holds the call that has just returned and `pre' the game it was  *)
(* made on, until the handler ends (Done).                                 *)
(***************************************************************************)
EXTENDS Integers, Sequences, FiniteSets, TLC

(***************************************************************************)
(* Bounds of the model.                                                    *)
(***************************************************************************)
\* The players issue at most MaxCalls commands.
MaxCalls == 2
\* tick() is called at most MaxTick times.
MaxTick == 2
\* Teams 1..NPlayers play; Game's constructor takes nPlayers.
NPlayers == 2

(***************************************************************************)
(* Program constants.                                                      *)
(***************************************************************************)
\* Player.Team.Neutral
Neutral == 0
\* MapNode.NodeType
Normal == 0
Factory == 1
PowerPlant == 2
Fort == 3
Artillery == 4
\* `undefined' for a node reference (MapNode.toJSON writes it as -1 too)
Undefined == -1
\* dist[] of a node the router has not reached
Infinity == 1000000000

Teams == Neutral..NPlayers
NodeTypes == {Normal, Factory, PowerPlant, Fort, Artillery}

\* Game.buildingCosts
buildingCosts ==
    (Factory :> 200) @@ (PowerPlant :> 1000) @@ (Fort :> 500) @@ (Artillery :> 2000)

(***************************************************************************)
(* The map: node id -> position, and the edges (Map.nodes, Map.edges).     *)
(* A small map with what Map's constructor checks for minDist 1 and        *)
(* maxDist 2.5: the nodes are at least 1 apart, every pair between 1 and   *)
(* 2.5 apart is joined, no two edges cross, and 0 and 3 (2.83 apart) are   *)
(* the one pair that is not adjacent.                                      *)
(***************************************************************************)
Pos == (0 :> <<0, 0>>) @@ (1 :> <<1, 0>>) @@ (2 :> <<0, 2>>) @@ (3 :> <<2, 2>>)

Edges == {<<1, 0>>, <<2, 0>>, <<2, 1>>, <<3, 1>>, <<3, 2>>}

Nodes == DOMAIN Pos

\* MapNode.adj
Adj(n) == {m \in Nodes : <<n, m>> \in Edges \/ <<m, n>> \in Edges}

(***************************************************************************)
(* Geometry.  Distances are fixed-point numbers with DistScale units per   *)
(* map unit (Math.sqrt truncated to that resolution).                      *)
(***************************************************************************)
DistScale == 1000

Abs(x) == IF x < 0 THEN -x ELSE x

\* floor(sqrt(v)), searched below hi
RECURSIVE ISqrt(_, _, _)
ISqrt(v, lo, hi) ==
    IF lo >= hi THEN lo
    ELSE LET mid == (lo + hi + 1) \div 2
         IN  IF mid * mid <= v THEN ISqrt(v, mid, hi) ELSE ISqrt(v, lo, mid - 1)

DistTable ==
    [p \in Nodes, q \in Nodes |->
        LET dx == Pos[p][1] - Pos[q][1]
            dy == Pos[p][2] - Pos[q][2]
        IN  ISqrt((dx * dx + dy * dy) * DistScale * DistScale,
                  0, (Abs(dx) + Abs(dy)) * DistScale)]

\* MapNode.distance
distance(p, q) == DistTable[p, q]

\* MapNode.intDistance: Math.round of the distance
intDistance(p, q) == (distance(p, q) + DistScale \div 2) \div DistScale

(***************************************************************************)
(* Game state as a value.                                                  *)
(***************************************************************************)
\* new MapArmy(from, to, troops, team, finalDest, id), distance = 0
MapArmy(from, to, troops, team, finalDest, id) ==
    [from |-> from, to |-> to, troops |-> troops, team |-> team,
     finalDest |-> finalDest, id |-> id, distance |-> 0]

\* MapArmy.toJSON: the fields of MapArmy.MapArmyJSON, nodes by their ids
MapArmy_toJSON(army) ==
    [from |-> army.from, to |-> army.to, troops |-> army.troops,
     distance |-> army.distance, team |-> army.team, id |-> army.id]

(***************************************************************************)
(* Game.dijkstra: the first hop from `from' towards `to', or Undefined.    *)
(***************************************************************************)
\* Fault: the scan selects the first node not done, whatever its dist.
nextNodeFirst(dist, done) ==
    LET cand == Nodes \ done
    IN  IF cand = {} THEN -1
        ELSE CHOOSE n \in cand : \A m \in cand : n <= m

\* the node the scan of lines 201-203 selects: the first not-done node of
\* least dist, or -1
nextNodeID(dist, done) ==
    LET cand == Nodes \ done
    IN  IF cand = {} THEN -1
        ELSE CHOOSE n \in cand :
                \A m \in cand : dist[n] < dist[m] \/ (dist[n] = dist[m] /\ n <= m)

RECURSIVE dijkstraLoop(_, _, _, _, _, _)
dijkstraLoop(nodes, from, to, dist, prev, done) ==
    LET next == nextNodeID(dist, done)
    IN  IF next = -1 \/ dist[next] = Infinity THEN [found |-> FALSE, prev |-> prev]
        ELSE IF next = to THEN [found |-> TRUE, prev |-> prev]
        ELSE LET done2 == done \cup {next}
                 relax(a) == /\ a \in Adj(next)
                             /\ a \notin done2
                             /\ (a = to \/ nodes[a].team = nodes[from].team)
                             /\ dist[next] + distance(next, a) < dist[a]
                 dist2 == [a \in Nodes |->
                             IF relax(a) THEN dist[next] + distance(next, a) ELSE dist[a]]
                 prev2 == [a \in Nodes |-> IF relax(a) THEN next ELSE prev[a]]
             IN  dijkstraLoop(nodes, from, to, dist2, prev2, done2)

\* lines 223-230: walk prev[] back from `to' to the node after `from'
RECURSIVE firstHop(_, _, _)
firstHop(prev, from, target) ==
    IF prev[target] = from THEN target
    ELSE IF prev[target] = -1 THEN Undefined
    ELSE firstHop(prev, from, prev[target])

\* Fault: no route is looked up, the army heads straight for `to'.
dijkstraStraight(nodes, from, to) ==
    IF from = to THEN Undefined ELSE to

dijkstra(nodes, from, to) ==
    LET dist0 == [n \in Nodes |-> IF n = from THEN 0 ELSE Infinity]
        prev0 == [n \in Nodes |-> -1]
        r     == dijkstraLoop(nodes, from, to, dist0, prev0, {})
    IN  IF r.found THEN firstHop(r.prev, from, to) ELSE Undefined

(***************************************************************************)
(* Game's commands.  Each returns [g |-> the game after, ret |-> result].  *)
(***************************************************************************)
Result(g, ret) == [g |-> g, ret |-> ret]

\* Fault: build asks for more troops than the cost (> for >=).
buildStrictlyMore(g, team, node, type) ==
    IF team = Neutral \/ type \notin DOMAIN buildingCosts THEN Result(g, FALSE)
    ELSE IF /\ g.nodes[node].team = team
            /\ g.nodes[node].type # type
            /\ g.nodes[node].troops > buildingCosts[type]
         THEN Result([g EXCEPT !.nodes[node].type = type,
                               !.nodes[node].troops = @ - buildingCosts[type]], TRUE)
         ELSE Result(g, FALSE)

\* Game.build
build(g, team, node, type) ==
    IF team = Neutral \/ type \notin DOMAIN buildingCosts THEN Result(g, FALSE)
    ELSE IF /\ g.nodes[node].team = team
            /\ g.nodes[node].type # type
            /\ g.nodes[node].troops >= buildingCosts[type]
         THEN Result([g EXCEPT !.nodes[node].type = type,
                               !.nodes[node].troops = @ - buildingCosts[type]], TRUE)
         ELSE Result(g, FALSE)

\* Fault: any enemy army on the edge blocks, whatever its progress.
attackedAtAnyProgress(g, team, from, to) ==
    \E i \in 1..Len(g.armies) :
        LET army == g.armies[i]
        IN  /\ army.from = to
            /\ army.to = from
            /\ army.team # team

\* the test of Game.sendArmy lines 115-118
attackedAlongEdge(g, team, from, to) ==
    \E i \in 1..Len(g.armies) :
        LET army == g.armies[i]
        IN  /\ army.from = to
            /\ army.to = from
            /\ army.team # team
            /\ army.distance = intDistance(from, to)

Min(a, b) == IF a <= b THEN a ELSE b

\* what sendArmy does once it has a number of troops to send and a next hop
dispatch(g, from, to, target, sent) ==
    [g EXCEPT
        !.nodes[from].troops = @ - sent,
        !.armies = Append(@, MapArmy(from, target, sent, g.nodes[from].team, to,
                                     g.armyCounter)),
        !.armyCounter = @ + 1]

\* Fault: the troops are debited before the route is known, and stay debited
\* when there is none.
sendArmyDebitsFirst(g, team, from, to, troops) ==
    IF g.nodes[from].team # team \/ team = Neutral THEN Result(g, FALSE)
    ELSE IF attackedAlongEdge(g, team, from, to) THEN Result(g, FALSE)
    ELSE LET sent == Min(troops, g.nodes[from].troops)
         IN  IF sent = 0 THEN Result(g, TRUE)
             ELSE LET target == dijkstra(g.nodes, from, to)
                  IN  IF target = Undefined
                      THEN Result([g EXCEPT !.nodes[from].troops = @ - sent], FALSE)
                      ELSE Result(dispatch(g, from, to, target, sent), TRUE)

\* Fault: the request is not clamped to the troops available.
sendArmyUnclamped(g, team, from, to, troops) ==
    IF g.nodes[from].team # team \/ team = Neutral THEN Result(g, FALSE)
    ELSE IF attackedAlongEdge(g, team, from, to) THEN Result(g, FALSE)
    ELSE IF troops = 0 THEN Result(g, TRUE)
    ELSE LET target == dijkstra(g.nodes, from, to)
         IN  IF target = Undefined THEN Result(g, FALSE)
             ELSE Result(dispatch(g, from, to, target, troops), TRUE)

\* Game.sendArmy
sendArmy(g, team, from, to, troops) ==
    IF g.nodes[from].team # team \/ team = Neutral THEN Result(g, FALSE)
    ELSE IF attackedAlongEdge(g, team, from, to) THEN Result(g, FALSE)
    ELSE LET sent == Min(troops, g.nodes[from].troops)
         IN  IF sent = 0 THEN Result(g, TRUE)
             ELSE LET target == dijkstra(g.nodes, from, to)
                  IN  IF target = Undefined THEN Result(g, FALSE)
                      ELSE Result(dispatch(g, from, to, target, sent), TRUE)

\* Fault: the target is stored without asking the router.
assignUnrouted(g, team, from, to) ==
    IF team = Neutral \/ g.nodes[from].team # team THEN Result(g, FALSE)
    ELSE Result([g EXCEPT !.nodes[from].assign = to], TRUE)

\* Game.assign
assign(g, team, from, to) ==
    IF team = Neutral \/ g.nodes[from].team # team THEN Result(g, FALSE)
    ELSE LET target == dijkstra(g.nodes, from, to)
         IN  Result([g EXCEPT !.nodes[from].assign =
                                 IF target = Undefined THEN Undefined ELSE to], TRUE)

\* Fault: unassign fails on a node that has no standing order.
unassignOnlyIfSet(g, team, from) ==
    IF team = Neutral \/ g.nodes[from].team # team THEN Result(g, FALSE)
    ELSE IF g.nodes[from].assign = Undefined THEN Result(g, FALSE)
    ELSE Result([g EXCEPT !.nodes[from].assign = Undefined], TRUE)

\* Game.unassign
unassign(g, team, from) ==
    IF team = Neutral \/ g.nodes[from].team # team THEN Result(g, FALSE)
    ELSE Result([g EXCEPT !.nodes[from].assign = Undefined], TRUE)

\* Fault: the buildings of the forfeited nodes are left standing.
forfeitKeepsBuildings(g, team) ==
    IF team = Neutral THEN Result(g, FALSE)
    ELSE Result(
           [g EXCEPT
              !.nodes = [n \in Nodes |->
                           IF g.nodes[n].team = team
                           THEN [g.nodes[n] EXCEPT !.team = Neutral, !.troops = 0]
                           ELSE g.nodes[n]],
              !.armies = SelectSeq(g.armies, LAMBDA army : army.team # team)],
           TRUE)

\* Game.forfeit
\* Fault: the team's armies are left in the active set.
forfeitKeepsArmies(g, team) ==
    IF team = Neutral THEN Result(g, FALSE)
    ELSE Result(
           [g EXCEPT
              !.nodes = [n \in Nodes |->
                           IF g.nodes[n].team = team
                           THEN [g.nodes[n] EXCEPT !.team = Neutral, !.type = Normal,
                                                   !.troops = 0]
                           ELSE g.nodes[n]]],
           TRUE)

forfeit(g, team) ==
    IF team = Neutral THEN Result(g, FALSE)
    ELSE Result(
           [g EXCEPT
              !.nodes = [n \in Nodes |->
                           IF g.nodes[n].team = team
                           THEN [g.nodes[n] EXCEPT !.team = Neutral, !.type = Normal,
                                                   !.troops = 0]
                           ELSE g.nodes[n]],
              !.armies = SelectSeq(g.armies, LAMBDA army : army.team # team)],
           TRUE)


(***************************************************************************)
(* MapArmy: combat.  Math.random() returns k / RandSteps for a k in Rand;  *)
(* losses are exact rationals <<numerator, denominator>>.                  *)
(***************************************************************************)
RandSteps == 2
Rand == 0..(RandSteps - 1)

\* MapArmy.lossMeanRatio = 1 / 80 and MapArmy.lossRadius = 0.1, as fractions
lossMeanRatio == <<1, 80>>
lossRadius == <<1, 10>>

\* Math.ceil of the fraction n / d, d > 0
Ceil(n, d) == -((-n) \div d)

Max(a, b) == IF a >= b THEN a ELSE b

\* troops * lossMeanRatio * (1 - lossRadius + Math.random() * 2 * lossRadius)
meanLoss(troops, k) ==
    <<troops * lossMeanRatio[1]
        * ((lossRadius[2] - lossRadius[1]) * RandSteps + k * 2 * lossRadius[1]),
      lossMeanRatio[2] * lossRadius[2] * RandSteps>>

\* Fault: the smaller pool's loss is computed from its own size and the
\* larger pool's loss is that, scaled by larger / smaller.
battleFromSmaller(troopsA, troopsB, multA, multB, r) ==
    IF troopsA <= 0 \/ troopsB <= 0 THEN <<Max(troopsA, 0), Max(troopsB, 0)>>
    ELSE LET lossesA ==
                 IF troopsA > troopsB
                 THEN LET lb == meanLoss(troopsB, r[1])
                      IN  <<lb[1] * troopsA, lb[2] * troopsB>>
                 ELSE meanLoss(troopsA, r[1])
             lossesB ==
                 IF troopsA > troopsB THEN meanLoss(troopsB, r[1])
                 ELSE IF troopsA < troopsB
                 THEN LET la == meanLoss(troopsA, r[1])
                      IN  <<la[1] * troopsB, la[2] * troopsA>>
                 ELSE meanLoss(troopsB, r[2])
         IN  <<troopsA - Ceil(lossesA[1] * multA[1], lossesA[2] * multA[2]),
               troopsB - Ceil(lossesB[1] * multB[1], lossesB[2] * multB[2])>>

\* Fault: a loss of less than one troop is not applied.
battleSparesSmallLosses(troopsA, troopsB, multA, multB, r) ==
    IF troopsA <= 0 \/ troopsB <= 0 THEN <<Max(troopsA, 0), Max(troopsB, 0)>>
    ELSE LET lossesA ==
                 IF troopsA < troopsB
                 THEN LET lb == meanLoss(troopsB, r[1])
                      IN  <<lb[1] * troopsB, lb[2] * troopsA>>
                 ELSE meanLoss(troopsA, r[1])
             lossesB ==
                 IF troopsA < troopsB THEN meanLoss(troopsB, r[1])
                 ELSE IF troopsA > troopsB
                 THEN LET la == meanLoss(troopsA, r[1])
                      IN  <<la[1] * troopsA, la[2] * troopsB>>
                 ELSE meanLoss(troopsB, r[2])
             applied(n, d) == IF n < d THEN 0 ELSE Ceil(n, d)
         IN  <<troopsA - applied(lossesA[1] * multA[1], lossesA[2] * multA[2]),
               troopsB - applied(lossesB[1] * multB[1], lossesB[2] * multB[2])>>

\* Fault: the losses are rounded down.
battleRoundsDown(troopsA, troopsB, multA, multB, r) ==
    IF troopsA <= 0 \/ troopsB <= 0 THEN <<Max(troopsA, 0), Max(troopsB, 0)>>
    ELSE LET lossesA ==
                 IF troopsA < troopsB
                 THEN LET lb == meanLoss(troopsB, r[1])
                      IN  <<lb[1] * troopsB, lb[2] * troopsA>>
                 ELSE meanLoss(troopsA, r[1])
             lossesB ==
                 IF troopsA < troopsB THEN meanLoss(troopsB, r[1])
                 ELSE IF troopsA > troopsB
                 THEN LET la == meanLoss(troopsA, r[1])
                      IN  <<la[1] * troopsA, la[2] * troopsB>>
                 ELSE meanLoss(troopsB, r[2])
         IN  <<troopsA - ((lossesA[1] * multA[1]) \div (lossesA[2] * multA[2])),
               troopsB - ((lossesB[1] * multB[1]) \div (lossesB[2] * multB[2]))>>

\* MapArmy.battle; a multiplier m is passed as the fraction <<2 * m, 2>>,
\* r[1] and r[2] are the first and second Math.random() of the call
battle(troopsA, troopsB, multA, multB, r) ==
    IF troopsA <= 0 \/ troopsB <= 0 THEN <<Max(troopsA, 0), Max(troopsB, 0)>>
    ELSE LET lossesA ==
                 IF troopsA < troopsB
                 THEN LET lb == meanLoss(troopsB, r[1])
                      IN  <<lb[1] * troopsB, lb[2] * troopsA>>
                 ELSE meanLoss(troopsA, r[1])
             lossesB ==
                 IF troopsA < troopsB THEN meanLoss(troopsB, r[1])
                 ELSE IF troopsA > troopsB
                 THEN LET la == meanLoss(troopsA, r[1])
                      IN  <<la[1] * troopsA, la[2] * troopsB>>
                 ELSE meanLoss(troopsB, r[2])
         IN  <<troopsA - Ceil(lossesA[1] * multA[1], lossesA[2] * multA[2]),
               troopsB - Ceil(lossesB[1] * multB[1], lossesB[2] * multB[2])>>

\* the attack bonus of an army whose origin is still its team's and has Artillery
fromArtillery(nodes, army) ==
    nodes[army.from].team = army.team /\ nodes[army.from].type = Artillery

\* Fault: the army is consumed by its first tick of combat with the node,
\* whether or not the node falls.
battleNodeConsumes(s, i, r) ==
    LET army == s.armies[i]
        node == s.nodes[army.to]
        fort == IF node.type = Fort THEN <<1, 2>> ELSE <<2, 2>>
        nodeMult == IF fromArtillery(s.nodes, army)
                    THEN <<fort[1] * 2, fort[2]>> ELSE fort
        armyMult == IF node.type = Artillery THEN <<4, 2>> ELSE <<2, 2>>
        b == battle(node.troops, army.troops, nodeMult, armyMult, r)
    IN  IF b[1] <= 0
        THEN [s EXCEPT
                !.armies[i].troops = 0,
                !.nodes[army.to] =
                    [node EXCEPT
                        !.type = Normal,
                        !.assign = Undefined,
                        !.team = IF b[2] > 0 THEN army.team ELSE Neutral,
                        !.troops = IF b[2] > 0 THEN b[2] ELSE 0,
                        !.wasAttacked = TRUE]]
        ELSE [s EXCEPT
                !.armies[i].troops = 0,
                !.nodes[army.to].troops = b[1],
                !.nodes[army.to].wasAttacked = TRUE]

\* Fault: a node that falls keeps its building and its standing order.
battleNodeKeepsBuilding(s, i, r) ==
    LET army == s.armies[i]
        node == s.nodes[army.to]
        fort == IF node.type = Fort THEN <<1, 2>> ELSE <<2, 2>>
        nodeMult == IF fromArtillery(s.nodes, army)
                    THEN <<fort[1] * 2, fort[2]>> ELSE fort
        armyMult == IF node.type = Artillery THEN <<4, 2>> ELSE <<2, 2>>
        b == battle(node.troops, army.troops, nodeMult, armyMult, r)
    IN  IF b[1] <= 0
        THEN [s EXCEPT
                !.armies[i].troops = 0,
                !.nodes[army.to] =
                    [node EXCEPT
                        !.team = IF b[2] > 0 THEN army.team ELSE Neutral,
                        !.troops = IF b[2] > 0 THEN b[2] ELSE 0,
                        !.wasAttacked = TRUE]]
        ELSE [s EXCEPT
                !.armies[i].troops = b[2],
                !.nodes[army.to].troops = b[1],
                !.nodes[army.to].wasAttacked = TRUE]

\* MapArmy.battleNode on the state s = [armies, nodes, toSend], army i
battleNode(s, i, r) ==
    LET army == s.armies[i]
        node == s.nodes[army.to]
        fort == IF node.type = Fort THEN <<1, 2>> ELSE <<2, 2>>
        nodeMult == IF fromArtillery(s.nodes, army)
                    THEN <<fort[1] * 2, fort[2]>> ELSE fort
        armyMult == IF node.type = Artillery THEN <<4, 2>> ELSE <<2, 2>>
        b == battle(node.troops, army.troops, nodeMult, armyMult, r)
        newNodeTroops == b[1]
        newArmyTroops == b[2]
    IN  IF newNodeTroops <= 0
        THEN [s EXCEPT
                !.armies[i].troops = 0,
                !.nodes[army.to] =
                    [node EXCEPT
                        !.type = Normal,
                        !.assign = Undefined,
                        !.team = IF newArmyTroops > 0 THEN army.team ELSE Neutral,
                        !.troops = IF newArmyTroops > 0 THEN newArmyTroops ELSE 0,
                        !.wasAttacked = TRUE]]
        ELSE [s EXCEPT
                !.armies[i].troops = newArmyTroops,
                !.nodes[army.to].troops = newNodeTroops,
                !.nodes[army.to].wasAttacked = TRUE]

\* MapArmy.battleEdge between armies i and j
battleEdge(s, i, j, r) ==
    LET army1 == s.armies[i]
        army2 == s.armies[j]
        army1Mult == IF fromArtillery(s.nodes, army2) THEN <<4, 2>> ELSE <<2, 2>>
        army2Mult == IF fromArtillery(s.nodes, army1) THEN <<4, 2>> ELSE <<2, 2>>
        b == battle(army1.troops, army2.troops, army1Mult, army2Mult, r)
    IN  [s EXCEPT !.armies[i].troops = b[1], !.armies[j].troops = b[2]]

\* Fault: two armies collide head-on only when their progresses add up to
\* more than the edge, after they have passed each other.
areCollidingHeadLate(a, b) ==
    a.to = b.from /\ a.from = b.to
        /\ a.distance + b.distance = intDistance(a.to, a.from) + 1

\* Fault: an army collides into the back of an army at its own progress.
areCollidingTailAbreast(a, b) ==
    a.to = b.to /\ a.from = b.from /\ a.distance = b.distance /\ a.id # b.id

\* MapArmy.sameDirection, oppositeDirection, areCollidingTail, areCollidingHead
sameDirection(a, b) == a.to = b.to /\ a.from = b.from
oppositeDirection(a, b) == a.to = b.from /\ a.from = b.to
areCollidingTail(a, b) == sameDirection(a, b) /\ a.distance = b.distance - 1
areCollidingHead(a, b) ==
    oppositeDirection(a, b) /\ a.distance + b.distance = intDistance(a.to, a.from) - 1

\* armies.sort((a, b) => b.distance - a.distance): stable, descending distance
RECURSIVE insertArmy(_, _)
insertArmy(sorted, army) ==
    IF sorted = <<>> THEN <<army>>
    ELSE IF sorted[Len(sorted)].distance >= army.distance THEN Append(sorted, army)
    ELSE Append(insertArmy(SubSeq(sorted, 1, Len(sorted) - 1), army), sorted[Len(sorted)])

\* Fault: the armies are processed in the order of the list.
sortArmiesNot(armies) == armies

RECURSIVE sortArmies(_)
sortArmies(armies) ==
    IF armies = <<>> THEN <<>>
    ELSE insertArmy(sortArmies(SubSeq(armies, 1, Len(armies) - 1)), armies[Len(armies)])

\* Fault: an army is taken to have arrived one step past the end of its edge.
armyStepOvershoots(s, i, r) ==
    LET army == s.armies[i]
        node == army.to
    IN  IF army.distance = intDistance(army.from, army.to) + 1
        THEN IF army.team # s.nodes[node].team
             THEN battleNode(s, i, r)
             ELSE [s EXCEPT
                     !.nodes[node].troops = @ + army.troops,
                     !.toSend = IF army.finalDest # node
                                THEN Append(@, <<node, army.finalDest, army.troops>>)
                                ELSE @,
                     !.armies[i].troops = 0]
        ELSE LET hit(j) == \/ areCollidingTail(army, s.armies[j])
                           \/ /\ areCollidingHead(army, s.armies[j])
                              /\ army.team # s.armies[j].team
                 hits == {j \in 1..Len(s.armies) : hit(j)}
             IN  IF hits = {} THEN [s EXCEPT !.armies[i].distance = @ + 1]
                 ELSE LET j == CHOOSE x \in hits : \A y \in hits : x <= y
                          other == s.armies[j]
                      IN  IF /\ areCollidingTail(army, other)
                             /\ army.team = other.team
                             /\ army.finalDest = other.finalDest
                          THEN [s EXCEPT !.armies[j].troops = @ + army.troops,
                                         !.armies[i].troops = 0]
                          ELSE battleEdge(s, i, j, r)

\* Fault: an army that moves onto the end of its edge is merged into the
\* node or fights it at once, in the same pass of the loop.
armyStepArrivesAtOnce(s, i, r) ==
    LET army == s.armies[i]
        node == army.to
        arrive(t) ==
            IF army.team # t.nodes[node].team
            THEN battleNode(t, i, r)
            ELSE [t EXCEPT
                    !.nodes[node].troops = @ + army.troops,
                    !.toSend = IF army.finalDest # node
                               THEN Append(@, <<node, army.finalDest, army.troops>>)
                               ELSE @,
                    !.armies[i].troops = 0]
    IN  IF army.distance = intDistance(army.from, army.to)
        THEN arrive(s)
        ELSE LET hit(j) == \/ areCollidingTail(army, s.armies[j])
                           \/ /\ areCollidingHead(army, s.armies[j])
                              /\ army.team # s.armies[j].team
                 hits == {j \in 1..Len(s.armies) : hit(j)}
             IN  IF hits = {}
                 THEN LET moved == [s EXCEPT !.armies[i].distance = @ + 1]
                      IN  IF army.distance + 1 = intDistance(army.from, army.to)
                          THEN arrive(moved)
                          ELSE moved
                 ELSE LET j == CHOOSE x \in hits : \A y \in hits : x <= y
                          other == s.armies[j]
                      IN  IF /\ areCollidingTail(army, other)
                             /\ army.team = other.team
                             /\ army.finalDest = other.finalDest
                          THEN [s EXCEPT !.armies[j].troops = @ + army.troops,
                                         !.armies[i].troops = 0]
                          ELSE battleEdge(s, i, j, r)

\* the body of the loop of MapArmy.tick (lines 148-182) for army i
armyStep(s, i, r) ==
    LET army == s.armies[i]
        node == army.to
    IN  IF army.distance = intDistance(army.from, army.to)
        THEN IF army.team # s.nodes[node].team
             THEN battleNode(s, i, r)
             ELSE [s EXCEPT
                     !.nodes[node].troops = @ + army.troops,
                     !.toSend = IF army.finalDest # node
                                THEN Append(@, <<node, army.finalDest, army.troops>>)
                                ELSE @,
                     !.armies[i].troops = 0]
        ELSE LET hit(j) == \/ areCollidingTail(army, s.armies[j])
                           \/ /\ areCollidingHead(army, s.armies[j])
                              /\ army.team # s.armies[j].team
                 hits == {j \in 1..Len(s.armies) : hit(j)}
             IN  IF hits = {} THEN [s EXCEPT !.armies[i].distance = @ + 1]
                 ELSE LET j == CHOOSE x \in hits : \A y \in hits : x <= y
                          other == s.armies[j]
                      IN  IF /\ areCollidingTail(army, other)
                             /\ army.team = other.team
                             /\ army.finalDest = other.finalDest
                          THEN [s EXCEPT !.armies[j].troops = @ + army.troops,
                                         !.armies[i].troops = 0]
                          ELSE battleEdge(s, i, j, r)

\* the loop of MapArmy.tick from army i on: every state it can end in, one
\* for each outcome of the Math.random() calls of the battles
RECURSIVE armyLoop(_, _)
armyLoop(ss, i) ==
    IF \A s \in ss : i > Len(s.armies) THEN ss
    ELSE armyLoop(UNION {{armyStep(s, i, r) : r \in Rand \X Rand} : s \in ss}, i + 1)

\* Fault: only the armies with exactly 0 troops are discarded.
survivorsNonZero(armies) == SelectSeq(armies, LAMBDA army : army.troops # 0)

\* lines 185-190: the armies with troops left
survivors(armies) == SelectSeq(armies, LAMBDA army : army.troops > 0)

\* MapArmy.tick: the results [armies |-> newArmies, nodes, toSend |-> armiesToSend]
\* it can return
armyTick(armies, nodes) ==
    LET ss == armyLoop({[armies |-> sortArmies(armies), nodes |-> nodes,
                         toSend |-> <<>>]}, 1)
    IN  {[s EXCEPT !.armies = survivors(s.armies)] : s \in ss}

(***************************************************************************)
(* MapNode.tick: production.                                               *)
(***************************************************************************)
\* Fault: the PowerPlants of every owner count for a Factory.
nodeTickAnyOwner(nodes, n, tickNumber) ==
    IF tickNumber % 2 # 0 \/ nodes[n].wasAttacked
    THEN [nodes EXCEPT ![n].wasAttacked = FALSE]
    ELSE LET mult == 1 + Cardinality({a \in Adj(n) : nodes[a].type = PowerPlant})
         IN  IF nodes[n].type = Factory
             THEN [nodes EXCEPT ![n].troops = @ + mult * 2]
             ELSE [nodes EXCEPT ![n].troops = @ + 1]

\* Fault: a node that was attacked produces as well; the flag is cleared.
nodeTickIgnoresAttack(nodes, n, tickNumber) ==
    IF tickNumber % 2 # 0
    THEN [nodes EXCEPT ![n].wasAttacked = FALSE]
    ELSE LET mult == 1 + Cardinality({a \in Adj(n) :
                            nodes[a].team = nodes[n].team /\ nodes[a].type = PowerPlant})
         IN  IF nodes[n].type = Factory
             THEN [nodes EXCEPT ![n].troops = @ + mult * 2, ![n].wasAttacked = FALSE]
             ELSE [nodes EXCEPT ![n].troops = @ + 1, ![n].wasAttacked = FALSE]

nodeTick(nodes, n, tickNumber) ==
    IF tickNumber % 2 # 0 \/ nodes[n].wasAttacked
    THEN [nodes EXCEPT ![n].wasAttacked = FALSE]
    ELSE LET mult == 1 + Cardinality({a \in Adj(n) :
                            nodes[a].team = nodes[n].team /\ nodes[a].type = PowerPlant})
         IN  IF nodes[n].type = Factory
             THEN [nodes EXCEPT ![n].troops = @ + mult * 2]
             ELSE [nodes EXCEPT ![n].troops = @ + 1]

(***************************************************************************)
(* Game.tick.                                                              *)
(***************************************************************************)
\* the period of standing orders (Game.tick line 79)
AssignPeriod == 8

\* Fault: a standing order that could not be carried out is kept.
nodeStepKeepsOrder(g, n) ==
    LET g1 == [g EXCEPT !.nodes = nodeTick(g.nodes, n, g.tickNumber)]
        node == g1.nodes[n]
    IN  IF node.assign # Undefined /\ g1.tickNumber % AssignPeriod = 0
        THEN sendArmy(g1, node.team, n, node.assign, node.troops).g
        ELSE g1

\* lines 76-85 for node n
nodeStep(g, n) ==
    LET g1 == [g EXCEPT !.nodes = nodeTick(g.nodes, n, g.tickNumber)]
        node == g1.nodes[n]
    IN  IF node.assign # Undefined /\ g1.tickNumber % AssignPeriod = 0
        THEN LET r == sendArmy(g1, node.team, n, node.assign, node.troops)
             IN  IF r.ret THEN r.g
                 ELSE [r.g EXCEPT !.nodes[n].assign = Undefined]
        ELSE g1

RECURSIVE nodeLoop(_, _)
nodeLoop(g, n) ==
    IF n \notin Nodes THEN g ELSE nodeLoop(nodeStep(g, n), n + 1)

\* line 88: armiesToSend.forEach(([to, from, troops]) => sendArmy(to.team, to, from, troops))
RECURSIVE sendLoop(_, _, _)
sendLoop(g, toSend, k) ==
    IF k > Len(toSend) THEN g
    ELSE LET e == toSend[k]
         IN  sendLoop(sendArmy(g, g.nodes[e[1]].team, e[1], e[2], e[3]).g, toSend, k + 1)

\* Fault: the continuations are submitted before the nodes are updated.
tickSendsFirst(g, a) ==
    LET g1 == [g EXCEPT !.tickNumber = @ + 1, !.armies = a.armies, !.nodes = a.nodes]
        g2 == sendLoop(g1, a.toSend, 1)
    IN  nodeLoop(g2, 0)

\* Game.tick, a being what MapArmy.tick returned
tickWith(g, a) ==
    LET g1 == [g EXCEPT !.tickNumber = @ + 1, !.armies = a.armies, !.nodes = a.nodes]
        g2 == nodeLoop(g1, 0)
    IN  sendLoop(g2, a.toSend, 1)

\* the games Game.tick can leave
tick(g) == {tickWith(g, a) : a \in armyTick(g.armies, g.nodes)}

(***************************************************************************)
(* Map's constructor.  A map under construction is the record              *)
(* [nodes, edges, nodeQueue, node, nearbyNodes, nearbyConnections,         *)
(* choices]: nodes are records [x, y, id, adj], a reference to a node is   *)
(* its index in Map.nodes (from 0; the node being created is referred to   *)
(* by the index it is pushed at), node is the node being grown or -1       *)
(* between two iterations of the outer loop.  Coordinates are fixed-point  *)
(* numbers, Unit to the map unit.                                          *)
(***************************************************************************)
\* the constructor's parameters
nNodes == 6
minDist == 2
maxDist == 4
maxAdj == 2

\* getPossibleChoices: const resolution = 4
resolution == 4

Unit == 1000

\* Unit * Math.sin(k * 90 / maxAdj degrees), k = 0..maxAdj, for the values of
\* maxAdj up to Map's default, rounded away from 0 so that a point proposed
\* at radius j is not nearer than j
QuarterSin ==
    (1 :> <<0, 1000>>) @@
    (2 :> <<0, 708, 1000>>) @@
    (3 :> <<0, 500, 867, 1000>>) @@
    (4 :> <<0, 383, 708, 924, 1000>>) @@
    (5 :> <<0, 310, 588, 810, 952, 1000>>)

\* Unit * Math.sin(2 * Math.PI * i / (maxAdj * resolution))
Sin(i) ==
    LET q == maxAdj
        t == QuarterSin[q]
    IN  IF i <= q THEN t[i + 1]
        ELSE IF i <= 2 * q THEN t[2 * q - i + 1]
        ELSE IF i <= 3 * q THEN -t[i - 2 * q + 1]
        ELSE -t[4 * q - i + 1]

\* Unit * Math.cos(2 * Math.PI * i / (maxAdj * resolution))
Cos(i) == Sin((i + maxAdj) % (maxAdj * resolution))

\* new MapNode(x, y)
NewNode(x, y) == [x |-> x, y |-> y, id |-> -1, adj |-> <<>>]

\* the square of MapNode.distance, in Unit * Unit
distanceSq(p, q) == (p.x - q.x) * (p.x - q.x) + (p.y - q.y) * (p.y - q.y)

\* MapNode.orientation
orientation(p, q, r) ==
    LET val == (q.y - p.y) * (r.x - q.x) - (q.x - p.x) * (r.y - q.y)
    IN  IF val > 0 THEN 1 ELSE IF val < 0 THEN 2 ELSE 0

\* MapNode.onSegment
onSegment(p, q, r) ==
    /\ q.x <= Max(p.x, r.x)
    /\ q.x >= Min(p.x, r.x)
    /\ q.y <= Max(p.y, r.y)
    /\ q.y >= Min(p.y, r.y)

\* MapNode.doIntersect
doIntersect(p1, q1, p2, q2) ==
    LET o1 == orientation(p1, q1, p2)
        o2 == orientation(p1, q1, q2)
        o3 == orientation(p2, q2, p1)
        o4 == orientation(p2, q2, q1)
    IN  \/ o1 # o2 /\ o3 # o4
        \/ o1 = 0 /\ onSegment(p1, p2, q1)
        \/ o2 = 0 /\ onSegment(p1, q2, q1)
        \/ o3 = 0 /\ onSegment(p2, p1, q2)
        \/ o4 = 0 /\ onSegment(p2, q1, q2)

\* Map.areNearby, Map.areInvasive
areNearby(p, q) == distanceSq(p, q) <= (maxDist * 2 * Unit) * (maxDist * 2 * Unit)
areInvasive(p, q) == distanceSq(p, q) < (minDist * Unit) * (minDist * Unit)

\* the references of the nodes of m, in the order of Map.nodes
Refs(m) == [k \in 1..Len(m.nodes) |-> k - 1]

\* the node a reference stands for
Node(m, ref) == m.nodes[ref + 1]

\* Map.getNearbyNodes
getNearbyNodes(m, node) ==
    SelectSeq(Refs(m), LAMBDA other : areNearby(Node(m, node), Node(m, other)))

\* Fault: no edge is taken to be near, so that no new edge is tested against any.
getNoEdges(m, node) == SubSeq(m.edges, 1, 0)

\* Map.getNearbyEdges
getNearbyEdges(m, node) ==
    SelectSeq(m.edges, LAMBDA connection :
        \/ areNearby(Node(m, node), Node(m, connection[1]))
        \/ areNearby(Node(m, node), Node(m, connection[2])))

\* Map.getPossibleChoices: the proposed nodes in the order of the two loops
\* (i outside, j inside)
getPossibleChoices(m, node, nearbyNodes) ==
    LET radii == maxDist - minDist
        proposedNode(k) ==
            LET i == (k - 1) \div radii
                j == minDist + ((k - 1) % radii)
            IN  NewNode(Node(m, node).x + Cos(i) * j, Node(m, node).y + Sin(i) * j)
        proposed == [k \in 1..(maxAdj * resolution * radii) |-> proposedNode(k)]
    IN  SelectSeq(proposed, LAMBDA p :
            \A n \in 1..Len(nearbyNodes) : ~areInvasive(p, Node(m, nearbyNodes[n])))

\* lines 282-291: does the edge from newNode to otherNode cross no nearby edge
isFeasibleConnection(m, newNode, otherNode) ==
    LET new == Len(m.nodes)
    IN  \A c \in 1..Len(m.nearbyConnections) :
            LET connection == m.nearbyConnections[c]
            IN  \/ connection[1] = new
                \/ connection[1] = otherNode
                \/ connection[2] = new
                \/ connection[2] = otherNode
                \/ ~doIntersect(newNode, Node(m, otherNode),
                                Node(m, connection[1]), Node(m, connection[2]))

\* Fault: the edge is pushed to Map.edges in both directions.
connectTwice(m, newNode, otherNode) ==
    LET new == Len(m.nodes)
    IN  [m |-> [m EXCEPT !.nodes[otherNode + 1].adj = Append(@, new),
                         !.edges = @ \o <<<<new, otherNode>>, <<otherNode, new>>>>,
                         !.nearbyConnections = Append(@, <<new, otherNode>>)],
         newNode |-> [newNode EXCEPT !.adj = Append(@, otherNode)]]

\* lines 295-298: join newNode and otherNode
connect(m, newNode, otherNode) ==
    LET new == Len(m.nodes)
    IN  [m |-> [m EXCEPT !.nodes[otherNode + 1].adj = Append(@, new),
                         !.edges = Append(@, <<new, otherNode>>),
                         !.nearbyConnections = Append(@, <<new, otherNode>>)],
         newNode |-> [newNode EXCEPT !.adj = Append(@, otherNode)]]

\* the loop over nearbyNodes (lines 274-299) from its k-th node on: the map
\* and newNode it leaves
RECURSIVE connectLoop(_, _, _)
connectLoop(m, newNode, k) ==
    IF k > Len(m.nearbyNodes) THEN [m |-> m, newNode |-> newNode]
    ELSE LET otherNode == m.nearbyNodes[k]
             dist == distanceSq(newNode, Node(m, otherNode))
         IN  IF Len(Node(m, otherNode).adj) >= maxAdj
             THEN connectLoop(m, newNode, k + 1)
             ELSE IF Len(newNode.adj) >= maxAdj THEN [m |-> m, newNode |-> newNode]
             ELSE IF \/ dist < (minDist * Unit) * (minDist * Unit)
                     \/ dist > (maxDist * Unit) * (maxDist * Unit)
             THEN connectLoop(m, newNode, k + 1)
             ELSE IF ~isFeasibleConnection(m, newNode, otherNode)
             THEN connectLoop(m, newNode, k + 1)
             ELSE LET c == connect(m, newNode, otherNode)
                  IN  connectLoop(c.m, c.newNode, k + 1)

\* the condition of the inner loop (lines 268-270)
growing(m) ==
    /\ m.node # -1
    /\ Len(Node(m, m.node).adj) < maxAdj
    /\ Len(m.nodes) < nNodes
    /\ Len(m.choices) > 0

\* the inner loop ends when its condition fails: its locals are gone
endOfLoop(m) ==
    IF growing(m) THEN m
    ELSE [m EXCEPT !.node = -1, !.nearbyNodes = <<>>, !.nearbyConnections = <<>>,
                   !.choices = <<>>]

\* the body of the inner loop (lines 272-310) with choices[k] as newNode
spawn(m, k) ==
    LET c == connectLoop(m, m.choices[k], 1)
        newNode == [c.newNode EXCEPT !.id = Len(c.m.nodes)]
        new == Len(c.m.nodes)
    IN  endOfLoop(
          [c.m EXCEPT
             !.choices = SelectSeq(@, LAMBDA otherNode : ~areInvasive(newNode, otherNode)),
             !.nodes = Append(@, newNode),
             !.nearbyNodes = Append(@, new),
             !.nodeQueue = Append(@, new)])

\* an iteration of the outer loop up to the inner loop (lines 259-266)
shift(m) ==
    LET node == Head(m.nodeQueue)
        m1 == [m EXCEPT !.nodeQueue = Tail(@)]
    IN  IF Len(Node(m, node).adj) >= maxAdj THEN m1
        ELSE LET nearbyNodes == getNearbyNodes(m1, node)
             IN  endOfLoop(
                   [m1 EXCEPT !.node = node,
                              !.nearbyNodes = nearbyNodes,
                              !.nearbyConnections = getNearbyEdges(m1, node),
                              !.choices = getPossibleChoices(m1, node, nearbyNodes)])

\* lines 253-256: the map before the outer loop
NewMap ==
    [nodes |-> <<[NewNode(0, 0) EXCEPT !.id = 0]>>, edges |-> <<>>, nodeQueue |-> <<0>>,
     node |-> -1, nearbyNodes |-> <<>>, nearbyConnections |-> <<>>, choices |-> <<>>]

\* the outer loop has ended (line 258)
constructed(m) ==
    m.node = -1 /\ ~(Len(m.nodeQueue) > 0 /\ Len(m.nodes) < nNodes)

(***************************************************************************)
(* RoomManager and Room.  A player is the number of its socket.  The        *)
(* manager is [players, rooms, room, team, handlers, roomCount]: players    *)
(* is RoomManager.players, rooms is RoomManager.rooms as places in room,    *)
(* room is every Room created so far in the order of creation (the room of  *)
(* index i at place i + 1), team is Player.team of every player, handlers   *)
(* is the pairs of a player and a room whose startRoom, runGame and         *)
(* pauseGame handlers the player has attached, roomCount is                 *)
(* Room.roomCount.  A Room is [id, maxPlayers, game, isLaunched, isRunning, *)
(* players, spectators]; of its game only the number of players it was      *)
(* constructed for and the teams that forfeited are kept.                   *)
(***************************************************************************)
\* the sockets that connect
NSockets == 3
Sockets == 1..NSockets
\* Room's constructor is called at most MaxRooms times
MaxRooms == 2
\* the sockets send at most MaxMessages messages between them
MaxMessages == 5
\* the maxPlayers a client asks createRoom for
MaxPlayersArgs == {1, 2}

NoGame == [defined |-> FALSE, nPlayers |-> 0, forfeited |-> {}]

\* new Room(io, maxPlayers), index being Room.roomCount
NewRoom(index, maxPlayers) ==
    [id |-> index, maxPlayers |-> maxPlayers, game |-> NoGame, isLaunched |-> FALSE,
     isRunning |-> FALSE, players |-> <<>>, spectators |-> <<>>]

\* the manager after every socket has connected (Server's constructor and
\* RoomManager.subscribe)
NewRoomManager ==
    [players |-> [i \in 1..NSockets |-> i], rooms |-> <<>>, room |-> <<>>,
     team |-> [p \in Sockets |-> Neutral], handlers |-> {}, roomCount |-> 0]

\* Array.prototype.includes and indexOf (from 1; 0 for JavaScript's -1)
includes(array, x) == \E i \in 1..Len(array) : array[i] = x

indexOf(array, x) ==
    IF includes(array, x)
    THEN CHOOSE i \in 1..Len(array) :
             array[i] = x /\ \A j \in 1..(i - 1) : array[j] # x
    ELSE 0

\* array.splice(array.indexOf(x), 1): what is left in the array and what the
\* call returns; a start of -1 is the last element
splice(array, x) ==
    LET i == IF includes(array, x) THEN indexOf(array, x) ELSE Len(array)
    IN  IF Len(array) = 0 THEN [left |-> <<>>, removed |-> <<>>]
        ELSE [left |-> SubSeq(array, 1, i - 1) \o SubSeq(array, i + 1, Len(array)),
              removed |-> <<array[i]>>]

\* Room.addPlayer
addPlayer(m, rid, player) ==
    LET r == m.room[rid]
    IN  IF r.isLaunched \/ r.isRunning \/ r.game.defined
           \/ Len(r.players) >= r.maxPlayers
        THEN [m EXCEPT !.room[rid].spectators = Append(@, player),
                       !.team[player] = Neutral]
        ELSE [m EXCEPT !.room[rid].players = Append(@, player),
                       !.team[player] = Len(r.players) + 1,
                       !.handlers = @ \cup {<<player, rid>>}]

\* Room.removePlayer up to the call of stopRoom: lines 98-115 and 124-128
removeMember(m, rid, player) ==
    LET r == m.room[rid]
    IN  IF includes(r.players, player)
        THEN [m EXCEPT
                !.room[rid].players = splice(r.players, player).left,
                !.room[rid].game =
                    IF r.game.defined /\ m.team[player] # Neutral
                    THEN [r.game EXCEPT !.forfeited = @ \cup {m.team[player]}]
                    ELSE r.game,
                !.team[player] = Neutral,
                !.handlers = @ \ {<<player, rid>>}]
        ELSE IF includes(r.spectators, player)
        THEN [m EXCEPT !.room[rid].spectators = splice(r.spectators, player).removed]
        ELSE m

\* lines 159-161: for (let player of this.players) this.removePlayer(player),
\* the array shrinking under the iterator; isLaunched is false by now, so
\* the stopRoom that removePlayer may call returns at once
RECURSIVE stopPlayers(_, _, _)
stopPlayers(m, rid, k) ==
    IF k > Len(m.room[rid].players) THEN m
    ELSE stopPlayers(removeMember(m, rid, m.room[rid].players[k]), rid, k + 1)

\* lines 162-164: for (let spectator of this.spectators) ..., the iterator
\* running over the array that this.spectators was when the loop began
\* (`array'); removePlayer splices that array as long as this.spectators is
\* still it (`same') and then makes this.spectators another array
RECURSIVE stopSpectators(_, _, _, _, _)
stopSpectators(m, rid, array, k, same) ==
    IF k > Len(array) THEN m
    ELSE LET spectator == array[k]
             r == m.room[rid]
             hit == ~includes(r.players, spectator) /\ includes(r.spectators, spectator)
         IN  stopSpectators(removeMember(m, rid, spectator), rid,
                            IF hit /\ same THEN splice(array, spectator).left ELSE array,
                            k + 1, same /\ ~hit)

\* Room.stopRoom, with the stopHandler RoomManager.createRoom gave the room
stopRoom(m, rid) ==
    IF ~m.room[rid].isLaunched THEN m
    ELSE LET m1 == [m EXCEPT !.room[rid].isRunning = FALSE,
                             !.room[rid].game = NoGame,
                             !.room[rid].isLaunched = FALSE]
             m2 == stopPlayers(m1, rid, 1)
             m3 == stopSpectators(m2, rid, m2.room[rid].spectators, 1, TRUE)
         IN  [m3 EXCEPT !.rooms = splice(m3.rooms, rid).left]

\* Room.removePlayer
removePlayer(m, rid, player) ==
    LET m1 == removeMember(m, rid, player)
    IN  IF includes(m.room[rid].players, player) /\ Len(m1.room[rid].players) = 0
        THEN stopRoom(m1, rid)
        ELSE m1

\* Room.startRoom
startRoom(m, rid) ==
    LET r == m.room[rid]
    IN  IF r.isLaunched \/ r.game.defined THEN m
        ELSE [m EXCEPT !.room[rid].game = [defined |-> TRUE, nPlayers |-> Len(r.players),
                                           forfeited |-> {}],
                       !.room[rid].isLaunched = TRUE]

\* Room.runGame
runGame(m, rid) ==
    LET r == m.room[rid]
    IN  IF ~r.game.defined \/ ~r.isLaunched \/ r.isRunning THEN m
        ELSE [m EXCEPT !.room[rid].isRunning = TRUE]

\* Room.pauseGame
pauseGame(m, rid) ==
    LET r == m.room[rid]
    IN  IF ~r.game.defined \/ ~r.isLaunched \/ ~r.isRunning THEN m
        ELSE [m EXCEPT !.room[rid].isRunning = FALSE]

\* RoomManager.findPlayerRoom: the room's place in room, or Undefined
findPlayerRoom(m, player) ==
    LET found == {i \in 1..Len(m.rooms) :
                     \/ includes(m.room[m.rooms[i]].players, player)
                     \/ includes(m.room[m.rooms[i]].spectators, player)}
    IN  IF found = {} THEN Undefined
        ELSE m.rooms[CHOOSE i \in found : \A j \in found : i <= j]

\* the player leaves the room findPlayerRoom gives, if any
leaveCurrent(m, player) ==
    IF findPlayerRoom(m, player) = Undefined THEN m
    ELSE removePlayer(m, findPlayerRoom(m, player), player)

\* RoomManager.createRoom(maxPlayers, isPrivate, player)
createRoom(m, maxPlayers, player) ==
    LET index == m.roomCount
        m1 == [m EXCEPT !.roomCount = @ + 1,
                        !.rooms = Append(@, index + 1),
                        !.room = Append(@, NewRoom(index, maxPlayers))]
    IN  addPlayer(m1, index + 1, player)

(***************************************************************************)
(* The state machine.                                                      *)
(***************************************************************************)
VARIABLES
    nodes,        \* Game.map.nodes: id -> [team, troops, type, assign, wasAttacked]
    armies,       \* Game.armies
    armyCounter,  \* Game.armyCounter
    tickNumber,   \* Game.tickNumber
    call,         \* the method call that has just returned, or Idle
    pre,          \* the game that call was made on
    calls,        \* the number of commands the players have issued
    map,          \* Game.map, as its constructor builds it
    roomManager   \* Server.roomManager: its rooms and the players' teams

game == <<nodes, armies, armyCounter, tickNumber>>
vars == <<nodes, armies, armyCounter, tickNumber, call, pre, calls, map, roomManager>>

Cur == [nodes |-> nodes, armies |-> armies, armyCounter |-> armyCounter,
        tickNumber |-> tickNumber]

Call(op, team, from, to, troops, type) ==
    [op |-> op, team |-> team, from |-> from, to |-> to, troops |-> troops,
     type |-> type, ret |-> FALSE]

Idle == Call("idle", Neutral, Undefined, Undefined, 0, Normal)

\* new MapNode(x, y) with the team and troops of a game in progress
MapNode(team, troops) ==
    [team |-> team, troops |-> troops, type |-> Normal, assign |-> Undefined,
     wasAttacked |-> FALSE]

\* A game in progress on the map.  Team 2 holds node 0, team 1 nodes 2 and
\* 3, node 1 is neutral.  Team 2 has 30 troops half way from node 0 to node
\* 2, team 1 has 20 troops half way from node 3 to node 1.
InitGame ==
    [nodes |-> (0 :> MapNode(2, 50)) @@ (1 :> MapNode(Neutral, 200)) @@
               (2 :> MapNode(1, 2200)) @@ (3 :> MapNode(1, 10)),
     armies |-> <<[MapArmy(0, 2, 30, 2, 2, 0) EXCEPT !.distance = 1],
                  [MapArmy(3, 1, 20, 1, 1, 1) EXCEPT !.distance = 1]>>,
     armyCounter |-> 2,
     tickNumber |-> 4406]

\* Map.edges of the game's map: the pairs of Edges, in the order of their
\* first and then their second node
RECURSIVE EdgeSeq(_)
EdgeSeq(es) ==
    IF es = {} THEN <<>>
    ELSE LET e == CHOOSE e \in es :
                     \A f \in es : e[1] < f[1] \/ (e[1] = f[1] /\ e[2] <= f[2])
         IN  <<e>> \o EdgeSeq(es \ {e})

\* the game's map (Pos, Edges) as the constructor leaves a map
GameMap ==
    LET edges == EdgeSeq(Edges)
        ends(n) == SelectSeq(edges, LAMBDA e : e[1] = n \/ e[2] = n)
        adj(n) == [k \in 1..Len(ends(n)) |->
                     IF ends(n)[k][1] = n THEN ends(n)[k][2] ELSE ends(n)[k][1]]
    IN  [NewMap EXCEPT
           !.nodes = [k \in 1..Cardinality(Nodes) |->
                        [x |-> Pos[k - 1][1] * Unit, y |-> Pos[k - 1][2] * Unit,
                         id |-> k - 1, adj |-> adj(k - 1)]],
           !.edges = edges,
           !.nodeQueue = <<>>]

Init ==
    /\ nodes = InitGame.nodes
    /\ armies = InitGame.armies
    /\ armyCounter = InitGame.armyCounter
    /\ tickNumber = InitGame.tickNumber
    /\ call = Idle
    /\ pre = InitGame
    /\ calls = 0
    /\ map = GameMap
    /\ roomManager = NewRoomManager

\* the troop counts a client asks sendArmy for
TroopArgs == {-1, 0, 20, 1000}

\* a method returns r to the handler that called it as c
Returns(r, c) ==
    /\ call.op = "idle"
    /\ nodes' = r.g.nodes
    /\ armies' = r.g.armies
    /\ armyCounter' = r.g.armyCounter
    /\ tickNumber' = r.g.tickNumber
    /\ call' = [c EXCEPT !.ret = r.ret]
    /\ pre' = Cur
    /\ UNCHANGED <<map, roomManager>>

\* a player's command: one of the handlers of Room.runGame
Command(r, c) ==
    /\ calls < MaxCalls
    /\ calls' = calls + 1
    /\ Returns(r, c)

Build(team, node, type) ==
    Command(build(Cur, team, node, type),
            Call("build", team, node, Undefined, 0, type))

SendArmy(team, from, to, troops) ==
    Command(sendArmy(Cur, team, from, to, troops),
            Call("sendArmy", team, from, to, troops, Normal))

Assign(team, from, to) ==
    Command(assign(Cur, team, from, to),
            Call("assign", team, from, to, 0, Normal))

Unassign(team, from) ==
    Command(unassign(Cur, team, from),
            Call("unassign", team, from, Undefined, 0, Normal))

Forfeit(team) ==
    Command(forfeit(Cur, team),
            Call("forfeit", team, Undefined, Undefined, 0, Normal))

\* the interval timer of Room.runGame
Tick(g) ==
    /\ tickNumber < InitGame.tickNumber + MaxTick
    /\ UNCHANGED calls
    /\ Returns(Result(g, TRUE),
               Call("tick", Neutral, Undefined, Undefined, 0, Normal))

\* the handler ends
Done ==
    /\ call.op # "idle"
    /\ call' = Idle
    /\ pre' = Cur
    /\ UNCHANGED <<game, calls, map, roomManager>>

Next ==
    \/ \E team \in Teams, node \in Nodes, type \in NodeTypes : Build(team, node, type)
    \/ \E team \in Teams, from \in Nodes, to \in Nodes, troops \in TroopArgs :
           SendArmy(team, from, to, troops)
    \/ \E team \in Teams, from \in Nodes, to \in Nodes : Assign(team, from, to)
    \/ \E team \in Teams, from \in Nodes : Unassign(team, from)
    \/ \E team \in Teams : Forfeit(team)
    \/ \E g \in tick(Cur) : Tick(g)
    \/ Done

Spec == Init /\ [][Next]_vars

(***************************************************************************)
(* The router alone: Game.dijkstra on the map under every ownership of its *)
(* nodes.                                                                  *)
(***************************************************************************)
RouterInit ==
    /\ nodes \in [Nodes -> {MapNode(team, 10) : team \in Teams}]
    /\ armies = <<>>
    /\ armyCounter = 0
    /\ tickNumber = 0
    /\ call = Idle
    /\ pre = Cur
    /\ calls = 0
    /\ map = GameMap
    /\ roomManager = NewRoomManager

\* this.dijkstra(from, to), as sendArmy and assign call it; call.ret is the
\* node it returns
Route(from, to) ==
    /\ call.op = "idle"
    /\ call' = [Call("dijkstra", nodes[from].team, from, to, 0, Normal)
                  EXCEPT !.ret = dijkstra(nodes, from, to)]
    /\ pre' = Cur
    /\ UNCHANGED <<game, calls, map, roomManager>>

RouterNext ==
    \/ \E from \in Nodes, to \in Nodes : Route(from, to)
    \/ Done

RouterSpec == RouterInit /\ [][RouterNext]_vars

(***************************************************************************)
(* Games in progress: positions a game reaches after some play, from which *)
(* the players issue one more command and the timer ticks.                 *)
(***************************************************************************)
\* Two armies of 100 troops, of team 1 from u and of team 2 from v, head-on
\* on the edge of u and v: the first has travelled d, the second the rest of
\* the edge but one.  u and v are still their teams', with buildings typeU
\* and typeV; uFirst: the army from u is the older one.
HeadOnPosition(u, v, d, typeU, typeV, uFirst) ==
    LET fromU == [MapArmy(u, v, 100, 1, v, 0) EXCEPT !.distance = d]
        fromV == [MapArmy(v, u, 100, 2, u, 1) EXCEPT
                    !.distance = intDistance(u, v) - 1 - d]
    IN  [nodes |-> [n \in Nodes |->
                      IF n = u THEN [MapNode(1, 10) EXCEPT !.type = typeU]
                      ELSE IF n = v THEN [MapNode(2, 10) EXCEPT !.type = typeV]
                      ELSE MapNode(Neutral, 10)],
         armies |-> IF uFirst THEN <<fromU, fromV>> ELSE <<fromV, fromU>>,
         armyCounter |-> 2,
         tickNumber |-> InitGame.tickNumber]

HeadOnPositions ==
    {HeadOnPosition(e[1], e[2], d, typeU, typeV, uFirst) :
        e \in {<<1, 0>>, <<2, 0>>}, d \in 0..1,
        typeU \in {Normal, Artillery}, typeV \in {Normal, Artillery},
        uFirst \in BOOLEAN} \ {HeadOnPosition(1, 0, 1, typeU, typeV, uFirst) :
        typeU \in {Normal, Artillery}, typeV \in {Normal, Artillery},
        uFirst \in BOOLEAN}

\* Team 2 sent 30 troops from node 1 against node 0 and has lost node 1 to
\* team 1 since: team 1 holds nodes 0 and 1, team 2 node 2, and the army is
\* d along the edge from 1 to 0.
SiegePosition(d) ==
    [nodes |-> (0 :> MapNode(1, 50)) @@ (1 :> MapNode(1, 40)) @@
               (2 :> MapNode(2, 60)) @@ (3 :> MapNode(Neutral, 10)),
     armies |-> <<[MapArmy(1, 0, 30, 2, 0, 0) EXCEPT !.distance = d]>>,
     armyCounter |-> 1,
     tickNumber |-> InitGame.tickNumber]

SiegePositions == {SiegePosition(d) : d \in 0..intDistance(1, 0)}

ScenarioInit ==
    /\ \E g \in HeadOnPositions \cup SiegePositions :
          /\ nodes = g.nodes
          /\ armies = g.armies
          /\ armyCounter = g.armyCounter
          /\ tickNumber = g.tickNumber
          /\ pre = g
    /\ call = Idle
    /\ calls = MaxCalls - 1
    /\ map = GameMap
    /\ roomManager = NewRoomManager

ScenarioSpec == ScenarioInit /\ [][Next]_vars

(***************************************************************************)
(* Games in progress under the timer alone: every combination of a few     *)
(* holdings of the four nodes with a few formations of armies, one or      *)
(* three ticks before a tick whose number is a multiple of AssignPeriod.   *)
(***************************************************************************)
\* a node of a game in progress with a building and a standing order
Holding(team, troops, type, order) ==
    [MapNode(team, troops) EXCEPT !.type = type, !.assign = order]

\* an army in flight, distance along its edge
InFlight(from, to, troops, team, finalDest, id, d) ==
    [MapArmy(from, to, troops, team, finalDest, id) EXCEPT !.distance = d]

MarchNodes ==
    {(0 :> n0) @@ (1 :> n1) @@ (2 :> n2) @@ (3 :> n3) :
        n0 \in {Holding(2, 50, Normal, Undefined),
                Holding(2, 1, Factory, 2),
                Holding(2, 0, Normal, Undefined),
                Holding(2, 30, Artillery, 2)},
        n1 \in {Holding(Neutral, 200, Normal, Undefined),
                Holding(Neutral, 0, Normal, 0),
                Holding(1, 5, PowerPlant, Undefined)},
        n2 \in {Holding(1, 2200, Normal, Undefined),
                Holding(1, 40, Factory, 0),
                Holding(1, 30, Fort, 3),
                Holding(2, 30, Normal, Undefined)},
        n3 \in {Holding(1, 10, Normal, Undefined),
                Holding(1, 10, PowerPlant, 0)}}

MarchArmies ==
    {<<>>,
     \* arrivals at node 2 from node 3, bound for node 2, 0 or 1
     <<InFlight(3, 2, 30, 1, 2, 0, 2)>>,
     <<InFlight(3, 2, 30, 1, 0, 0, 2)>>,
     <<InFlight(3, 2, 30, 1, 1, 0, 2)>>,
     \* arrivals at node 2 from node 0
     <<InFlight(0, 2, 30, 2, 2, 0, 2)>>,
     <<InFlight(0, 2, 1, 2, 2, 0, 2)>>,
     <<InFlight(0, 2, 30, 2, 2, 0, 2), InFlight(0, 2, 20, 2, 2, 1, 1)>>,
     <<InFlight(0, 2, 30, 2, 2, 0, 2), InFlight(3, 2, 30, 1, 0, 1, 2)>>,
     <<InFlight(3, 2, 30, 1, 0, 0, 2), InFlight(0, 2, 2200, 2, 2, 1, 2)>>,
     \* arrivals at node 0 from node 2
     <<InFlight(2, 0, 1, 1, 0, 0, 2)>>,
     <<InFlight(2, 0, 100, 1, 0, 0, 2)>>,
     <<InFlight(2, 0, 100, 1, 0, 0, 2), InFlight(2, 0, 20, 1, 0, 1, 1)>>,
     <<InFlight(2, 0, 100, 1, 0, 0, 2), InFlight(2, 0, 20, 2, 0, 1, 1)>>,
     <<InFlight(0, 2, 30, 2, 2, 0, 0), InFlight(2, 0, 100, 1, 0, 1, 2),
       InFlight(2, 0, 20, 1, 1, 2, 1)>>,
     \* one behind the other from node 2 to node 0
     <<InFlight(2, 0, 20, 1, 0, 0, 0), InFlight(2, 0, 30, 1, 0, 1, 1)>>,
     <<InFlight(2, 0, 20, 1, 1, 0, 0), InFlight(2, 0, 30, 1, 0, 1, 1)>>,
     <<InFlight(2, 0, 20, 2, 0, 0, 0), InFlight(2, 0, 30, 1, 0, 1, 1)>>,
     \* side by side from node 2 to node 0
     <<InFlight(2, 0, 20, 1, 0, 0, 0), InFlight(2, 0, 30, 1, 0, 1, 0)>>,
     <<InFlight(2, 0, 20, 1, 1, 0, 1), InFlight(2, 0, 30, 1, 0, 1, 1)>>,
     \* head-on between nodes 2 and 0, and with one behind
     <<InFlight(2, 0, 20, 1, 0, 0, 0), InFlight(0, 2, 30, 2, 2, 1, 1)>>,
     <<InFlight(2, 0, 20, 1, 0, 0, 0), InFlight(0, 2, 30, 1, 2, 1, 1)>>,
     <<InFlight(2, 0, 1, 1, 0, 0, 0), InFlight(0, 2, 100, 2, 2, 1, 1)>>,
     <<InFlight(2, 0, 20, 1, 0, 0, 0), InFlight(2, 0, 30, 1, 0, 1, 1),
       InFlight(0, 2, 30, 2, 2, 2, 0)>>,
     <<InFlight(2, 0, 20, 1, 0, 0, 0), InFlight(2, 0, 30, 1, 0, 1, 1),
       InFlight(0, 2, 30, 2, 2, 2, 2)>>}

MarchPositions ==
    {[nodes |-> ns, armies |-> as, armyCounter |-> Len(as), tickNumber |-> t] :
        ns \in MarchNodes, as \in MarchArmies,
        t \in {InitGame.tickNumber - 1, InitGame.tickNumber + 1}}

MarchInit ==
    /\ \E g \in MarchPositions :
          /\ nodes = g.nodes
          /\ armies = g.armies
          /\ armyCounter = g.armyCounter
          /\ tickNumber = g.tickNumber
          /\ pre = g
    /\ call = Idle
    /\ calls = MaxCalls
    /\ map = GameMap
    /\ roomManager = NewRoomManager

MarchNext ==
    \/ \E g \in tick(Cur) : Tick(g)
    \/ Done

MarchSpec == MarchInit /\ [][MarchNext]_vars

(***************************************************************************)
(* Games under the timer for as long as it runs.  Game.tick reads          *)
(* tickNumber only modulo AssignPeriod and modulo 2, and nothing reads     *)
(* armyCounter or an army's id except toJSON, so the two counters are kept *)
(* here in a window: tickNumber in LiveEpoch .. LiveEpoch + AssignPeriod   *)
(* - 1, the ids of the armies created by the ticks in LiveFirstId ..       *)
(* LiveFirstId + MaxIds - 1 (the armies of the starting position keep      *)
(* theirs).  Every node gains troops on every second tick unless it is     *)
(* attacked or emptied by its standing order; the timer is followed while  *)
(* no node holds more than MaxTroops.                                      *)
(***************************************************************************)
MaxIds == 4
MaxTroops == 2212

\* a tick number that is a multiple of AssignPeriod
LiveEpoch == InitGame.tickNumber + 2

\* the first id given by a tick
LiveFirstId == 3

\* A siege with supplies on both sides.  Team 1 holds node 2 with m troops;
\* team 2's army of x troops stands at the end of the edge from node 0.
\* Node 0 (team 2, Factory) has a standing order to node 2, and so have
\* nodes 1 and 3 (team 1).
Stalemate(m, x, t) ==
    [nodes |-> (0 :> Holding(2, 0, Factory, 2)) @@ (1 :> Holding(1, 0, Normal, 2)) @@
               (2 :> Holding(1, m, Normal, Undefined)) @@ (3 :> Holding(1, 0, Normal, 2)),
     armies |-> <<InFlight(0, 2, x, 2, 2, 0, 2)>>,
     armyCounter |-> LiveFirstId,
     tickNumber |-> t]

\* Armies among neutral nodes with large garrisons
Doomed(as, t) ==
    [nodes |-> [n \in Nodes |-> Holding(Neutral, 2200, Normal, Undefined)],
     armies |-> as,
     armyCounter |-> LiveFirstId,
     tickNumber |-> t]

LivePositions ==
    {Stalemate(m, x, LiveEpoch) : m \in 39..41, x \in 39..41}
    \cup {Doomed(as, t) : as \in {f \in MarchArmies :
                                     \A i \in 1..Len(f) : f[i].troops <= 100},
                          t \in {LiveEpoch, LiveEpoch + 1}}

LiveInit ==
    /\ \E g \in LivePositions :
          /\ nodes = g.nodes
          /\ armies = g.armies
          /\ armyCounter = g.armyCounter
          /\ tickNumber = g.tickNumber
          /\ pre = g
    /\ call = Idle
    /\ calls = MaxCalls
    /\ map = GameMap
    /\ roomManager = NewRoomManager

\* id in its window
LiveId(id) ==
    IF id < LiveFirstId THEN id ELSE LiveFirstId + ((id - LiveFirstId) % MaxIds)

\* the game g with its counters in their windows
Windowed(g) ==
    [g EXCEPT !.tickNumber = LiveEpoch + (g.tickNumber % AssignPeriod),
              !.armyCounter = LiveId(g.armyCounter),
              !.armies = [i \in 1..Len(g.armies) |->
                            [g.armies[i] EXCEPT !.id = LiveId(g.armies[i].id)]]]

\* some node holds more than MaxTroops: the timer is followed no further
Capped == \E n \in Nodes : nodes[n].troops > MaxTroops

\* the interval timer of Room.runGame
LiveTick(g) ==
    /\ ~Capped
    /\ UNCHANGED calls
    /\ Returns(Result(Windowed(g), TRUE),
               Call("tick", Neutral, Undefined, Undefined, 0, Normal))

LiveNext ==
    \/ \E g \in tick(Cur) : LiveTick(g)
    \/ Done

\* Every call returns, and setInterval keeps calling.  The timer's action is
\* enabled exactly when no call is under way and no node is over MaxTroops,
\* and taking it starts a call, so its weak fairness is that infinitely
\* often a call is under way or a node is over MaxTroops.
LiveSpec ==
    /\ LiveInit
    /\ [][LiveNext]_vars
    /\ WF_vars(Done)
    /\ []<>(call.op # "idle" \/ Capped)

(***************************************************************************)
(* MapArmy.tick step by step on the armies and nodes of a game in          *)
(* progress: the sort, one pass of the loop per army, then the discarding  *)
(* of the armies without troops.  `call' holds the step just taken: the    *)
(* index i of the army just processed and armiesToSend so far; `pre' holds *)
(* armies and nodes as they were before that step.                         *)
(***************************************************************************)
LoopCall(op, i, toSend) == [op |-> op, i |-> i, toSend |-> toSend]

LoopInit ==
    /\ \E g \in MarchPositions :
          /\ g.tickNumber = InitGame.tickNumber - 1
          /\ nodes = g.nodes
          /\ armies = g.armies
          /\ armyCounter = g.armyCounter
          /\ tickNumber = g.tickNumber
          /\ pre = g
    /\ call = LoopCall("idle", 0, <<>>)
    /\ calls = MaxCalls
    /\ map = GameMap
    /\ roomManager = NewRoomManager

\* line 147: const sortedArmies = armies.sort(...)
SortArmies ==
    /\ call.op = "idle"
    /\ armies' = sortArmies(armies)
    /\ call' = LoopCall("sort", 0, <<>>)
    /\ pre' = Cur
    /\ UNCHANGED <<nodes, armyCounter, tickNumber, calls, map, roomManager>>

\* lines 148-182: the body of the loop for the next army
ArmyStep(r) ==
    /\ call.op \in {"sort", "armyStep"}
    /\ call.i < Len(armies)
    /\ LET s == armyStep([armies |-> armies, nodes |-> nodes, toSend |-> call.toSend],
                         call.i + 1, r)
       IN  /\ armies' = s.armies
           /\ nodes' = s.nodes
           /\ call' = LoopCall("armyStep", call.i + 1, s.toSend)
    /\ pre' = Cur
    /\ UNCHANGED <<armyCounter, tickNumber, calls, map, roomManager>>

\* lines 185-192: the armies with troops left are returned
Discard ==
    /\ call.op \in {"sort", "armyStep"}
    /\ call.i = Len(armies)
    /\ armies' = survivors(armies)
    /\ call' = LoopCall("return", call.i, call.toSend)
    /\ pre' = Cur
    /\ UNCHANGED <<nodes, armyCounter, tickNumber, calls, map, roomManager>>

LoopNext ==
    \/ SortArmies
    \/ \E r \in Rand \X Rand : ArmyStep(r)
    \/ Discard

LoopSpec == LoopInit /\ [][LoopNext]_vars

(***************************************************************************)
(* MapArmy.battle alone, called with troop counts and multipliers as       *)
(* battleNode and battleEdge pass them: counts of nodes and armies, those  *)
(* of armies left without troops earlier in a tick included, and the       *)
(* multipliers 0.5 (Fort), 1 and 2 (Artillery).  `call' holds the          *)
(* arguments, the two Math.random() and the pair returned.                 *)
(***************************************************************************)
BattleTroops == {-3, 0, 1, 2, 7, 30, 100, 2200}
BattleMults == {<<1, 2>>, <<2, 2>>, <<4, 2>>}

Battle(troopsA, troopsB, multA, multB, r) ==
    /\ call.op = "idle"
    /\ call' = [op |-> "battle", troopsA |-> troopsA, troopsB |-> troopsB,
                multA |-> multA, multB |-> multB, r |-> r,
                ret |-> battle(troopsA, troopsB, multA, multB, r)]
    /\ pre' = Cur
    /\ UNCHANGED <<game, calls, map, roomManager>>

CombatNext ==
    \/ \E troopsA \in BattleTroops, troopsB \in BattleTroops,
          multA \in BattleMults, multB \in BattleMults, r \in Rand \X Rand :
           Battle(troopsA, troopsB, multA, multB, r)
    \/ Done

CombatSpec == Init /\ [][CombatNext]_vars

(***************************************************************************)
(* Map's constructor alone: new Map(nNodes, minDist, maxDist, maxAdj).     *)
(***************************************************************************)
MapInit ==
    /\ nodes = InitGame.nodes
    /\ armies = InitGame.armies
    /\ armyCounter = InitGame.armyCounter
    /\ tickNumber = InitGame.tickNumber
    /\ call = Idle
    /\ pre = InitGame
    /\ calls = 0
    /\ map = NewMap
    /\ roomManager = NewRoomManager

\* the outer loop takes the next node of the queue
Shift ==
    /\ map.node = -1
    /\ Len(map.nodeQueue) > 0
    /\ Len(map.nodes) < nNodes
    /\ map' = shift(map)
    /\ UNCHANGED <<game, call, pre, calls, roomManager>>

\* the inner loop creates choices[Math.floor(Math.random() * choices.length)]
Spawn(k) ==
    /\ growing(map)
    /\ map' = spawn(map, k)
    /\ UNCHANGED <<game, call, pre, calls, roomManager>>

MapNext ==
    \/ Shift
    \/ \E k \in 1..Len(map.choices) : Spawn(k)

MapSpec == MapInit /\ [][MapNext]_vars

(***************************************************************************)
(* The handlers of RoomManager.subscribe and of Room.addPlayer, one action *)
(* per message of a socket.  `call' is the message just handled, with the  *)
(* place of the room findPlayerRoom found for its sender (Undefined for    *)
(* none), `pre' the manager before it and `calls' the number of messages   *)
(* handled so far.                                                         *)
(***************************************************************************)
RoomInit ==
    /\ nodes = InitGame.nodes
    /\ armies = InitGame.armies
    /\ armyCounter = InitGame.armyCounter
    /\ tickNumber = InitGame.tickNumber
    /\ call = [op |-> "connect", player |-> 0, room |-> Undefined]
    /\ pre = NewRoomManager
    /\ calls = 0
    /\ map = GameMap
    /\ roomManager = NewRoomManager

\* the sockets RoomManager.subscribe has attached its handlers to and the
\* disconnect handler has not yet detached them from
subscribed(m, player) == includes(m.players, player)

\* the handler of `op' has run for `player' and left the manager m
Handled(op, player, m) ==
    /\ calls < MaxMessages
    /\ roomManager' = m
    /\ call' = [op |-> op, player |-> player,
                room |-> findPlayerRoom(roomManager, player)]
    /\ pre' = roomManager
    /\ calls' = calls + 1
    /\ UNCHANGED <<game, map>>

\* socket.on('createRoom')
CreateRoom(player, maxPlayers) ==
    /\ roomManager.roomCount < MaxRooms
    /\ subscribed(roomManager, player)
    /\ Handled("createRoom", player,
               createRoom(leaveCurrent(roomManager, player), maxPlayers, player))

\* socket.on('joinRoom'): the first room of the list with the id asked for
joinRoom(m, roomID, player) ==
    LET m1 == leaveCurrent(m, player)
        found == {i \in 1..Len(m1.rooms) : m1.room[m1.rooms[i]].id = roomID}
    IN  IF found = {} THEN m1
        ELSE addPlayer(m1, m1.rooms[CHOOSE i \in found : \A j \in found : i <= j],
                       player)

JoinRoom(player, roomID) ==
    /\ subscribed(roomManager, player)
    /\ Handled("joinRoom", player, joinRoom(roomManager, roomID, player))

\* socket.on('leaveRoom')
LeaveRoom(player) ==
    /\ subscribed(roomManager, player)
    /\ Handled("leaveRoom", player, leaveCurrent(roomManager, player))

\* socket.on('disconnect')
Disconnect(player) ==
    /\ subscribed(roomManager, player)
    /\ Handled("disconnect", player,
               [leaveCurrent(roomManager, player) EXCEPT
                   !.players = splice(@, player).left])

\* the test of the handlers addPlayer attaches to a player of the room:
\* only the room's first player gets through
hosts(m, rid, player) ==
    Len(m.room[rid].players) > 0 /\ player = m.room[rid].players[1]

StartRoom(player, rid) ==
    /\ <<player, rid>> \in roomManager.handlers
    /\ Handled("startRoom", player,
               IF hosts(roomManager, rid, player)
               THEN runGame(startRoom(roomManager, rid), rid)
               ELSE roomManager)

RunGame(player, rid) ==
    /\ <<player, rid>> \in roomManager.handlers
    /\ Handled("runGame", player,
               IF hosts(roomManager, rid, player)
               THEN runGame(roomManager, rid)
               ELSE roomManager)

PauseGame(player, rid) ==
    /\ <<player, rid>> \in roomManager.handlers
    /\ Handled("pauseGame", player,
               IF hosts(roomManager, rid, player)
               THEN pauseGame(roomManager, rid)
               ELSE roomManager)

RoomNext ==
    \/ \E player \in Sockets, maxPlayers \in MaxPlayersArgs : CreateRoom(player, maxPlayers)
    \/ \E player \in Sockets, roomID \in 0..(MaxRooms - 1) : JoinRoom(player, roomID)
    \/ \E player \in Sockets : LeaveRoom(player)
    \/ \E player \in Sockets : Disconnect(player)
    \/ \E player \in Sockets, rid \in 1..Len(roomManager.room) : StartRoom(player, rid)
    \/ \E player \in Sockets, rid \in 1..Len(roomManager.room) : RunGame(player, rid)
    \/ \E player \in Sockets, rid \in 1..Len(roomManager.room) : PauseGame(player, rid)

RoomSpec == RoomInit /\ [][RoomNext]_vars

(***************************************************************************)
(* Properties.  In a state where a call has just returned, `pre' is the    *)
(* game before the call, Cur the game after it, and call.ret its result.   *)
(***************************************************************************)
Commands == {"build", "sendArmy", "assign", "unassign", "forfeit"}

\* the armies the call appended to Game.armies
NewArmies == SubSeq(armies, Len(pre.armies) + 1, Len(armies))

\* the call was sendArmy by the non-neutral owner of `from'
SentByOwner ==
    /\ call.op = "sendArmy"
    /\ call.team # Neutral
    /\ pre.nodes[call.from].team = call.team

\* (b) of C5: an army of another team, from `to' to `from', at full progress
BlockedBefore ==
    \E i \in 1..Len(pre.armies) :
        /\ pre.armies[i].team # call.team
        /\ pre.armies[i].from = call.to
        /\ pre.armies[i].to = call.from
        /\ pre.armies[i].distance = intDistance(call.from, call.to)

\* C1: whenever build, sendArmy, assign, unassign or forfeit returns false,
\* the whole game (every node, the army list, the counters) is as before the call.
C1_FailedCommandChangesNothing ==
    (call.op \in Commands /\ ~call.ret) => Cur = pre

\* C1 witness: a sendArmy by the owner of `from', with troops to send, failed.
C1_Witness ==
    /\ SentByOwner
    /\ ~call.ret
    /\ call.troops > 0
    /\ pre.nodes[call.from].troops > 0

\* the cost of a building as the specification lists it (0: not a building)
ListedCost(type) ==
    CASE type = Factory -> 200
      [] type = PowerPlant -> 1000
      [] type = Fort -> 500
      [] type = Artillery -> 2000
      [] OTHER -> 0

\* the three conditions of C2 on the game before the call
BuildConditions ==
    /\ pre.nodes[call.from].team = call.team
    /\ pre.nodes[call.from].type # call.type
    /\ ListedCost(call.type) > 0
    /\ pre.nodes[call.from].troops >= ListedCost(call.type)

\* a successful build debits the cost, sets the building, changes nothing else
BuildEffect ==
    Cur = [pre EXCEPT !.nodes[call.from].type = call.type,
                      !.nodes[call.from].troops = @ - ListedCost(call.type)]

\* C2 as stated: build returns true if and only if team owns node, type
\* differs from the node's building and the node has the troops to pay the
\* cost; on true exactly the cost is debited and the building set.
C2_Original ==
    call.op = "build" =>
        /\ call.ret <=> BuildConditions
        /\ call.ret => BuildEffect

\* C2 amended: build returns true if and only if team is not neutral, team
\* owns node, type differs from the node's building and the node has the
\* troops to pay the cost; on true exactly the cost is debited, the building
\* set, and nothing else changes.
C2_BuildIffNonNeutralOwnerCanPay ==
    call.op = "build" =>
        /\ call.ret <=> (call.team # Neutral /\ BuildConditions)
        /\ call.ret => BuildEffect

\* C2 witness: an Artillery was built on a node that held exactly its cost
\* more than it holds now.
C2_Witness ==
    /\ call.op = "build"
    /\ call.ret
    /\ call.type = Artillery
    /\ nodes[call.from].troops = pre.nodes[call.from].troops - 2000

\* what C3 says a successful sendArmy of a positive request does
SendEffect ==
    LET sent == Min(call.troops, pre.nodes[call.from].troops)
    IN  /\ nodes = [pre.nodes EXCEPT ![call.from].troops = @ - sent]
        /\ Len(armies) = Len(pre.armies) + 1
        /\ SubSeq(armies, 1, Len(pre.armies)) = pre.armies
        /\ LET army == armies[Len(armies)]
           IN  /\ army.troops = sent
               /\ army.team = call.team
               /\ army.from = call.from
               /\ army.to = dijkstra(pre.nodes, call.from, call.to)
               /\ army.to \in Adj(call.from)
               /\ army.finalDest = call.to
               /\ army.distance = 0
               /\ \A i \in 1..Len(pre.armies) : pre.armies[i].id # army.id
               /\ nodes[call.from].troops + army.troops = pre.nodes[call.from].troops
        /\ (call.troops >= pre.nodes[call.from].troops => nodes[call.from].troops = 0)

\* C3 as stated: every sendArmy that succeeds with a positive request moves
\* min(troops, from.troops) troops into exactly one new army.
C3_Original ==
    (call.op = "sendArmy" /\ call.ret /\ call.troops > 0) => SendEffect

\* C3 amended: a sendArmy that succeeds with a positive request from a node
\* holding at least one troop moves exactly min(troops, from.troops) troops
\* from the node into exactly one new army (owner team, origin from, next hop
\* the router's first step, final destination to, progress 0, fresh id).
C3_SendMovesClampedTroops ==
    (/\ call.op = "sendArmy"
     /\ call.ret
     /\ call.troops > 0
     /\ pre.nodes[call.from].troops > 0) => SendEffect

\* C3 witness: 1000 troops requested of a node holding 50: 50 left with the
\* new army and the node is empty.
C3_Witness ==
    /\ call.op = "sendArmy"
    /\ call.ret
    /\ call.troops = 1000
    /\ pre.nodes[call.from].troops = 50
    /\ nodes[call.from].troops = 0
    /\ Len(NewArmies) = 1
    /\ NewArmies[1].troops = 50

\* C4: for every integer request, sendArmy never leaves the source node with
\* more troops than before and never adds an army of fewer than 1 troop.
C4_SendNeverAddsTroops ==
    call.op = "sendArmy" =>
        /\ nodes[call.from].troops <= pre.nodes[call.from].troops
        /\ \A i \in 1..Len(NewArmies) : NewArmies[i].troops >= 1

\* C5: sendArmy returns false exactly when (a) from is not owned by team or
\* team is neutral, or (b) an army of another team from `to' to `from' is at
\* full progress, or (c) neither, the clamped request is non-zero and the
\* router finds no route; in every other case it returns true.
C5_SendFailsExactlyWhen ==
    call.op = "sendArmy" =>
        LET a == pre.nodes[call.from].team # call.team \/ call.team = Neutral
            b == BlockedBefore
            c == /\ ~a
                 /\ ~b
                 /\ Min(call.troops, pre.nodes[call.from].troops) # 0
                 /\ dijkstra(pre.nodes, call.from, call.to) = Undefined
        IN  ~call.ret <=> (a \/ b \/ c)

\* C5 witness: a sendArmy by the owner failed because an enemy army had
\* reached the end of the edge towards `from'.
C5_Witness ==
    /\ SentByOwner
    /\ ~call.ret
    /\ BlockedBefore
    /\ dijkstra(pre.nodes, call.from, call.to) # Undefined

\* C6: when from is owned by team, no blocking army exists and the request
\* or from.troops is 0, sendArmy returns true, creates no army and changes
\* no node (read for a team that is not neutral).
C6_ZeroSendIsNoOp ==
    (/\ SentByOwner
     /\ ~BlockedBefore
     /\ (call.troops = 0 \/ pre.nodes[call.from].troops = 0))
        => (call.ret /\ Cur = pre)

\* C7: after assign by the non-neutral owner of from, from's standing order
\* is `to' when the router finds a route and is not `to' when it does not;
\* when team does not own from the order is unchanged; no other field of
\* any node and no army changes.
C7_AssignSetsOrderIffRouted ==
    call.op = "assign" =>
        LET owner  == call.team # Neutral /\ pre.nodes[call.from].team = call.team
            routed == dijkstra(pre.nodes, call.from, call.to) # Undefined
        IN  /\ (owner /\ routed) => nodes[call.from].assign = call.to
            /\ (owner /\ ~routed) => nodes[call.from].assign # call.to
            /\ pre.nodes[call.from].team # call.team
                   => nodes[call.from].assign = pre.nodes[call.from].assign
            /\ Cur = [pre EXCEPT !.nodes[call.from].assign = nodes[call.from].assign]

\* C7 witness: the owner assigned a node to a target two hops away.
C7_Witness ==
    /\ call.op = "assign"
    /\ call.ret
    /\ nodes[call.from].assign = call.to
    /\ call.to # call.from
    /\ call.to \notin Adj(call.from)

\* C8: assign with a target the router reports unreachable returns false and
\* leaves from's standing order as it was.
C8_UnreachableAssignFails ==
    (call.op = "assign" /\ dijkstra(pre.nodes, call.from, call.to) = Undefined)
        => (~call.ret /\ nodes[call.from].assign = pre.nodes[call.from].assign)

\* C9: unassign is idempotent: a second unassign(team, node) right after the
\* first leaves the same game and returns the same value, and after a
\* successful call the node has no standing order.
C9_UnassignIdempotent ==
    call.op = "unassign" =>
        LET again == unassign(Cur, call.team, call.from)
        IN  /\ again.g = Cur
            /\ again.ret = call.ret
            /\ call.ret => nodes[call.from].assign = Undefined

\* C9 witness: unassign cleared a standing order that was set.
C9_Witness ==
    /\ call.op = "unassign"
    /\ call.ret
    /\ pre.nodes[call.from].assign # Undefined
    /\ nodes[call.from].assign = Undefined

\* C10: after forfeit(team), team not neutral, every node team owned is
\* neutral with zero troops and no building, no army of team is left, and
\* the nodes and armies of the others are unchanged, the armies in order.
C10_ForfeitResetsOnlyTheTeam ==
    (call.op = "forfeit" /\ call.team # Neutral) =>
        /\ \A n \in Nodes :
              IF pre.nodes[n].team = call.team
              THEN /\ nodes[n].team = Neutral
                   /\ nodes[n].troops = 0
                   /\ nodes[n].type = Normal
              ELSE nodes[n] = pre.nodes[n]
        /\ \A i \in 1..Len(armies) : armies[i].team # call.team
        /\ armies = SelectSeq(pre.armies, LAMBDA army : army.team # call.team)

\* C10 witness: the team that forfeited had a building and an army, and an
\* army of another team is still on its way.
C10_Witness ==
    /\ call.op = "forfeit"
    /\ call.team # Neutral
    /\ \E n \in Nodes : pre.nodes[n].team = call.team /\ pre.nodes[n].type # Normal
    /\ \E i \in 1..Len(pre.armies) : pre.armies[i].team = call.team
    /\ Len(armies) > 0

\* the army of pre.armies with the id of army a, as a set (empty: a is new)
Before(a) == {pre.armies[i] : i \in {k \in 1..Len(pre.armies) : pre.armies[k].id = a.id}}

\* the ids of the armies in the list
Ids(as) == {as[i].id : i \in 1..Len(as)}

\* C11: at the end of every Game.tick(), whatever commands and ticks came
\* before, every node has troops >= 0 and every army left in the list has
\* troops >= 1.
C11_NoNegativeTroopsAfterTick ==
    call.op = "tick" =>
        /\ \A n \in Nodes : nodes[n].troops >= 0
        /\ \A i \in 1..Len(armies) : armies[i].troops >= 1

\* C11 witness: the tick discarded an army that had troops before it, and one
\* that a command had created with a negative troop count.
C11_Witness ==
    /\ call.op = "tick"
    /\ \E i \in 1..Len(pre.armies) :
          pre.armies[i].troops >= 1 /\ pre.armies[i].id \notin Ids(armies)
    /\ \E i \in 1..Len(pre.armies) :
          pre.armies[i].troops < 0 /\ pre.armies[i].id \notin Ids(armies)

\* C12: in every reachable state the progress of every army is at least 0
\* and at most the rounded length of the edge from its origin to its next hop.
C12_ProgressWithinEdge ==
    \A i \in 1..Len(armies) :
        /\ armies[i].distance >= 0
        /\ armies[i].distance <= intDistance(armies[i].from, armies[i].to)

\* C12 witness: the tick left an army at the end of its edge, where it had
\* been before the tick as well.
C12_Witness ==
    /\ call.op = "tick"
    /\ \E i \in 1..Len(armies) :
          /\ armies[i].distance = intDistance(armies[i].from, armies[i].to)
          /\ \E b \in Before(armies[i]) : b.distance = armies[i].distance

\* the paths from `from' to `to' on the map: no node twice, every step along
\* an edge, every node between the two ends owned by the team of `from'
Paths(from, to) ==
    {p \in UNION {[1..k -> Nodes] : k \in 2..Cardinality(Nodes)} :
        /\ p[1] = from
        /\ p[Len(p)] = to
        /\ \A i, j \in 1..Len(p) : i # j => p[i] # p[j]
        /\ \A i \in 1..(Len(p) - 1) : p[i + 1] \in Adj(p[i])
        /\ \A i \in 2..(Len(p) - 1) : nodes[p[i]].team = nodes[from].team}

\* the total length of the edges of a path
RECURSIVE PathLength(_)
PathLength(p) ==
    IF Len(p) < 2 THEN 0
    ELSE distance(p[1], p[2]) + PathLength(Tail(p))

\* C13: dijkstra(from, to) returns a node if and only if from and to differ
\* and some path joins them whose intermediate nodes all belong to the team
\* of from (to may belong to anyone); the node returned is then the first
\* hop of such a path of minimum total length.
C13_RouterFirstHopOfShortestPath ==
    call.op = "dijkstra" =>
        LET paths == Paths(call.from, call.to)
        IN  /\ call.ret # Undefined <=> (call.from # call.to /\ paths # {})
            /\ call.ret # Undefined =>
                  \E p \in paths :
                      /\ p[2] = call.ret
                      /\ \A q \in paths : PathLength(p) <= PathLength(q)

\* C13 witness: two routes lead from `from' to a node that is not adjacent,
\* through different neighbours and of different lengths, and the router
\* returned the neighbour on the shorter one.
C13_Witness ==
    /\ call.op = "dijkstra"
    /\ call.ret # Undefined
    /\ call.to \notin Adj(call.from)
    /\ \E p, q \in Paths(call.from, call.to) :
          /\ p[2] = call.ret
          /\ q[2] # call.ret
          /\ PathLength(p) < PathLength(q)

\* the references of the nodes of the map, as a set
MapRefs == 0..(Len(map.nodes) - 1)

\* the neighbours of a node of the map, as a set
AdjOf(ref) == {Node(map, ref).adj[k] : k \in 1..Len(Node(map, ref).adj)}

\* the nodes joined to the nodes of `seen' by a path of edges
RECURSIVE Joined(_)
Joined(seen) ==
    LET more == seen \cup UNION {AdjOf(ref) : ref \in seen}
    IN  IF more = seen THEN seen ELSE Joined(more)

\* C14: every map the constructor produces is connected: every node is
\* joined to node 0 by a path of edges, and with more than one node no node
\* is without a neighbour.
C14_MapIsConnected ==
    constructed(map) =>
        /\ Joined({0}) = MapRefs
        /\ Len(map.nodes) > 1 => \A ref \in MapRefs : AdjOf(ref) # {}

\* the entries of Map.edges that join a and b
EdgesBetween(a, b) ==
    {k \in 1..Len(map.edges) :
        \/ map.edges[k] = <<a, b>>
        \/ map.edges[k] = <<b, a>>}

\* C15: a map the constructor produces has at most nNodes nodes, no node of
\* degree above maxAdj, a symmetric adjacency without loops and without
\* repeated neighbours, exactly one entry of Map.edges for each pair of
\* adjacent nodes (and none for any other pair), and each node's id is its
\* index in Map.nodes.
C15_MapStructure ==
    constructed(map) =>
        /\ Len(map.nodes) <= nNodes
        /\ \A a \in MapRefs :
              LET adj == Node(map, a).adj
              IN  /\ Len(adj) <= maxAdj
                  /\ Node(map, a).id = a
                  /\ a \notin AdjOf(a)
                  /\ AdjOf(a) \subseteq MapRefs
                  /\ \A i, j \in 1..Len(adj) : i # j => adj[i] # adj[j]
                  /\ \A b \in MapRefs :
                        /\ b \in AdjOf(a) <=> a \in AdjOf(b)
                        /\ Cardinality(EdgesBetween(a, b)) =
                               (IF b \in AdjOf(a) THEN 1 ELSE 0)

\* C15 witness: a finished map of nNodes nodes with a node of degree maxAdj.
C15_Witness ==
    /\ constructed(map)
    /\ Len(map.nodes) = nNodes
    /\ \E a \in MapRefs : Len(Node(map, a).adj) = maxAdj

\* is the distance of p and q within [minDist, maxDist]
InRange(p, q) ==
    /\ distanceSq(p, q) >= (minDist * Unit) * (minDist * Unit)
    /\ distanceSq(p, q) <= (maxDist * Unit) * (maxDist * Unit)

\* C16: in a map the constructor produces every edge has a length within
\* [minDist, maxDist], any two distinct nodes are at least minDist apart,
\* and no two edges without a common endpoint intersect, wherever they lie.
C16_MapGeometry ==
    constructed(map) =>
        /\ \A k \in 1..Len(map.edges) :
              InRange(Node(map, map.edges[k][1]), Node(map, map.edges[k][2]))
        /\ \A a, b \in MapRefs :
              a # b => ~areInvasive(Node(map, a), Node(map, b))
        /\ \A k, l \in 1..Len(map.edges) :
              LET e == map.edges[k]
                  f == map.edges[l]
              IN  {e[1], e[2]} \cap {f[1], f[2]} = {}
                    => ~doIntersect(Node(map, e[1]), Node(map, e[2]),
                                    Node(map, f[1]), Node(map, f[2]))

\* C16 witness: a finished map in which two nodes within range of each
\* other, both with room for a neighbour, are not joined: the edge would
\* cross an edge of the map.
C16_Witness ==
    /\ constructed(map)
    /\ \E a, b \in MapRefs :
          /\ a # b
          /\ b \notin AdjOf(a)
          /\ Len(Node(map, a).adj) < maxAdj
          /\ Len(Node(map, b).adj) < maxAdj
          /\ InRange(Node(map, a), Node(map, b))
          /\ \E k \in 1..Len(map.edges) :
                /\ {map.edges[k][1], map.edges[k][2]} \cap {a, b} = {}
                /\ doIntersect(Node(map, a), Node(map, b),
                               Node(map, map.edges[k][1]), Node(map, map.edges[k][2]))

\* the fields of an army
ArmyFields == {"from", "to", "finalDest", "troops", "distance", "team", "id"}

\* an army re-hydrated from its serialized form: every field the form
\* carries, node ids looked up in the node list; Undefined for the others
Rehydrated(json) ==
    [f \in ArmyFields |->
        IF f \notin DOMAIN json THEN Undefined
        ELSE IF f \in {"from", "to", "finalDest"}
             THEN (CHOOSE n \in Nodes : n = json[f])
             ELSE json[f]]

\* C17: the serialized form of every army carries its origin, next hop and
\* final destination ids with troops, progress, owner and id, and
\* re-hydrating it gives an army equal to the original in all these fields.
C17_ArmyRoundTrip ==
    \A i \in 1..Len(armies) :
        /\ DOMAIN MapArmy_toJSON(armies[i]) = ArmyFields
        /\ Rehydrated(MapArmy_toJSON(armies[i])) = armies[i]

\* the troops the army with this id has after the call, 0 when it is gone
TroopsAfter(id) ==
    IF id \in Ids(armies)
    THEN (CHOOSE a \in {armies[i] : i \in 1..Len(armies)} : a.id = id).troops
    ELSE 0

\* the pairs of armies of the scenario of C18 in the game before the call:
\* different teams, 100 troops each, the same edge in opposite directions,
\* progresses adding up to the edge length - 1, no other army on the edge
HeadOnPairs ==
    {p \in Ids(pre.armies) \X Ids(pre.armies) :
        \E i, j \in 1..Len(pre.armies) :
            LET a == pre.armies[i]
                b == pre.armies[j]
            IN  /\ a.id = p[1]
                /\ b.id = p[2]
                /\ i # j
                /\ a.team # b.team
                /\ a.troops = 100
                /\ b.troops = 100
                /\ oppositeDirection(a, b)
                /\ a.distance + b.distance = intDistance(a.from, a.to) - 1
                /\ \A k \in 1..Len(pre.armies) :
                      (sameDirection(pre.armies[k], a) \/ sameDirection(pre.armies[k], b))
                          => k \in {i, j}}

\* C18 as stated: after one tick on two armies of 100 troops meeting
\* head-on, exactly one of the two has fewer troops than before.
C18_Original ==
    call.op = "tick" =>
        \A p \in HeadOnPairs : (TroopsAfter(p[1]) < 100) # (TroopsAfter(p[2]) < 100)

\* C18 amended: after one tick on two armies of different teams with 100
\* troops each, head-on on an edge with progresses adding up to the edge
\* length - 1, both armies have fewer troops than before the tick.
C18_HeadOnBothLose ==
    call.op = "tick" =>
        \A p \in HeadOnPairs : TroopsAfter(p[1]) < 100 /\ TroopsAfter(p[2]) < 100

\* C18 witness: the tick left 96 troops to each of two such armies.
C18_Witness ==
    /\ call.op = "tick"
    /\ \E p \in HeadOnPairs : TroopsAfter(p[1]) = 96 /\ TroopsAfter(p[2]) = 96

\* C19: no two armies of different teams, both with troops, on the same
\* edge in opposite directions have progresses adding up to more than the
\* rounded edge length - 1; in particular no call dispatches an army onto an
\* edge from a node at which an enemy army on that edge is at full progress.
C19_NoPassingWithoutCombat ==
    /\ \A i, j \in 1..Len(armies) :
          (/\ i # j
           /\ armies[i].team # armies[j].team
           /\ armies[i].troops > 0
           /\ armies[j].troops > 0
           /\ oppositeDirection(armies[i], armies[j]))
              => armies[i].distance + armies[j].distance
                     <= intDistance(armies[i].from, armies[i].to) - 1
    /\ \A k \in 1..Len(armies) :
          (armies[k].id \notin Ids(pre.armies) /\ armies[k].troops > 0) =>
              ~\E i \in 1..Len(armies) :
                  /\ armies[i].id \in Ids(pre.armies)
                  /\ armies[i].team # armies[k].team
                  /\ armies[i].troops > 0
                  /\ oppositeDirection(armies[i], armies[k])
                  /\ armies[i].distance = intDistance(armies[i].from, armies[i].to)

\* the armies of the game before the call that have troops and are at the end
\* of their edge, and those that are one step short of it
AtEnd == {a \in {pre.armies[i] : i \in 1..Len(pre.armies)} :
            a.troops > 0 /\ a.distance = intDistance(a.from, a.to)}

OneShort == {a \in {pre.armies[i] : i \in 1..Len(pre.armies)} :
               a.troops > 0 /\ a.distance = intDistance(a.from, a.to) - 1}

\* the army is the only one on its edge, in either direction, before the call
AloneOnEdge(a) ==
    \A i \in 1..Len(pre.armies) :
        (sameDirection(pre.armies[i], a) \/ oppositeDirection(pre.armies[i], a))
            => pre.armies[i].id = a.id

\* the army is listed after the call, with this progress
ListedAt(a, d) ==
    \E i \in 1..Len(armies) : armies[i].id = a.id /\ armies[i].distance = d

\* C20 as stated: the tick that raises an army's progress to the rounded edge
\* length also resolves its arrival, so the army is merged into the node
\* (and leaves the list) or has fought the node (and lost troops).
C20_Original ==
    call.op = "tick" =>
        \A a \in OneShort :
            ListedAt(a, a.distance + 1) => TroopsAfter(a.id) < a.troops

\* C20 amended: arrival is resolved in the tick after the one that raises the
\* progress to the rounded edge length.  The tick that raises the progress of
\* an army alone on its edge leaves it listed at the end of the edge with
\* the troops it had; a tick that finds an army with troops at the end of
\* its edge merges it into the friendly node or makes it fight the node: it
\* leaves the list or has fewer troops, unless a friendly army with the same
\* final destination right behind it joins it in that tick.
C20_ArrivalResolvedNextTick ==
    call.op = "tick" =>
        /\ \A a \in OneShort :
              AloneOnEdge(a) =>
                  ListedAt(a, a.distance + 1) /\ TroopsAfter(a.id) = a.troops
        /\ \A a \in AtEnd :
              \/ a.id \notin Ids(armies)
              \/ TroopsAfter(a.id) < a.troops
              \/ \E i \in 1..Len(pre.armies) :
                    /\ areCollidingTail(pre.armies[i], a)
                    /\ pre.armies[i].team = a.team
                    /\ pre.armies[i].finalDest = a.finalDest

\* C20 witness: the first tick raised the army of 30 troops from node 0 to
\* the end of its edge and left it its 30 troops; the second tick found it
\* there, before node 2 of the other team, and left it fewer troops.
C20_Witness ==
    /\ call.op = "tick"
    /\ pre.tickNumber = InitGame.tickNumber + 1
    /\ \E a \in AtEnd :
          /\ a.id = InitGame.armies[1].id
          /\ a.troops = InitGame.armies[1].troops
          /\ InitGame.armies[1].distance = a.distance - 1
          /\ pre.nodes[a.to].team # a.team
          /\ a.id \in Ids(armies)
          /\ TroopsAfter(a.id) < a.troops

\* the army is the only one of the game before the call at the end of an
\* edge into its node, and no army of its team with its final destination
\* is right behind it
SoleArrival(a) ==
    /\ \A b \in AtEnd : b.to = a.to => b.id = a.id
    /\ \A i \in 1..Len(pre.armies) :
          areCollidingTail(pre.armies[i], a) =>
              (pre.armies[i].team # a.team \/ pre.armies[i].finalDest # a.finalDest)

\* the armies of the game before the call that a tick finds at the end of
\* their edge before a node of another team, as the only arrival there
Besiegers == {a \in AtEnd : pre.nodes[a.to].team # a.team /\ SoleArrival(a)}

\* neither the army nor the node can be wiped out by one tick of combat: both
\* have at least 4 troops and neither has more than 5 times the other's
EvenlyMatched(a) ==
    LET n == pre.nodes[a.to].troops
    IN  n >= 4 /\ a.troops >= 4 /\ n <= 5 * a.troops /\ a.troops <= 5 * n

NodeCombat ==
    /\ call.op = "armyStep"
    /\ pre.armies[call.i].distance
           = intDistance(pre.armies[call.i].from, pre.armies[call.i].to)
    /\ pre.armies[call.i].team # pre.nodes[pre.armies[call.i].to].team

\* C22: after node combat the node is in one of three conditions.  Left
\* without troops by a combat that left the attacker none either, it is
\* neutral with 0 troops; left without troops otherwise, it is the
\* attacker's with the attacker's surviving troops; in both cases it has no
\* building and no standing order and the army has 0 troops.  Left with
\* troops, it has kept owner, building and standing order.  A node without
\* troops falls to the whole army, 1 troop against 1 leaves a neutral node,
\* 1 troop against 4 or more is captured, evenly matched sides both hold.
C22_NodeCombatOutcome ==
    NodeCombat =>
        LET a == pre.armies[call.i]
            before == pre.nodes[a.to]
            after == nodes[a.to]
            left == armies[call.i].troops
            fallen == after.type = Normal /\ after.assign = Undefined /\ left = 0
            neutral == after.team = Neutral /\ after.troops = 0 /\ fallen
            captured == /\ after.team = a.team
                        /\ after.troops >= 1
                        /\ after.troops <= a.troops
                        /\ fallen
            held == /\ after.team = before.team
                    /\ after.type = before.type
                    /\ after.assign = before.assign
                    /\ after.troops >= 1
                    /\ after.troops <= before.troops
                    /\ left < a.troops
        IN  /\ IF after.troops = 0 THEN neutral
               ELSE IF after.team # before.team THEN captured
               ELSE held
            /\ before.troops <= 0 => captured /\ after.troops = a.troops
            /\ (before.troops = 1 /\ a.troops = 1) => neutral
            /\ (before.troops = 1 /\ a.troops >= 4) => captured /\ after.troops < a.troops
            /\ EvenlyMatched(a) => held /\ left >= 1

\* C22 witness: a Factory of 1 troop with a standing order has just fallen to
\* an army of 100 troops and is the army's team's, without building or order.
C22_Witness ==
    /\ NodeCombat
    /\ pre.armies[call.i].troops = 100
    /\ pre.nodes[pre.armies[call.i].to].troops = 1
    /\ pre.nodes[pre.armies[call.i].to].type = Factory
    /\ pre.nodes[pre.armies[call.i].to].assign # Undefined
    /\ nodes[pre.armies[call.i].to].team = pre.armies[call.i].team
    /\ nodes[pre.armies[call.i].to].type = Normal
    /\ nodes[pre.armies[call.i].to].assign = Undefined
    /\ armies[call.i].troops = 0

\* what MapNode.tick adds to node n in the tick just made, if n was not
\* attacked in it
Mult(n) ==
    1 + Cardinality({m \in Adj(n) :
                       nodes[m].team = nodes[n].team /\ nodes[m].type = PowerPlant})

Production(n) ==
    IF tickNumber % 2 # 0 THEN 0
    ELSE IF nodes[n].type = Factory THEN 2 * Mult(n)
    ELSE 1

\* the armies the call created at node n
NewFrom(n) ==
    {armies[i] : i \in {k \in 1..Len(armies) :
                          armies[k].id >= pre.armyCounter /\ armies[k].from = n}}

\* after the call an army of another team than node n's stands at the end
\* of the edge from node to to n
Blocked(n, to) ==
    \E i \in 1..Len(armies) :
        /\ armies[i].from = to
        /\ armies[i].to = n
        /\ armies[i].team # nodes[n].team
        /\ armies[i].distance = intDistance(to, n)

\* the armies of the game before the call that a tick finds at the end of
\* their edge at a node of their team and that it merges into the node: no
\* other army of the team arrives there or is right behind, the node is
\* still the team's after the tick; the army is bound for that node or a
\* neighbour of it, and the node's standing order is for a neighbour too
FriendlyArrivals ==
    {a \in AtEnd : /\ pre.nodes[a.to].team = a.team
                   /\ nodes[a.to].team = a.team
                   /\ \A b \in AtEnd : (b.to = a.to /\ b.team = a.team) => b.id = a.id
                   /\ \A i \in 1..Len(pre.armies) :
                         areCollidingTail(pre.armies[i], a) =>
                             \/ pre.armies[i].team # a.team
                             \/ pre.armies[i].finalDest # a.finalDest
                   /\ a.finalDest \in Adj(a.to) \cup {a.to}
                   /\ pre.nodes[a.to].assign \in Adj(a.to) \cup {Undefined}}

\* an army of another team was at the end of an edge into node n too
Besieged(n) == \E b \in AtEnd : b.to = n /\ b.team # pre.nodes[n].team

\* C23: a tick that finds an army at the end of its edge at a node of its
\* team removes the army and adds its troops to the node's.  Production and
\* the node's standing order come next: on a tick whose number is a multiple
\* of AssignPeriod an order that is not blocked sends all of the node's
\* troops, the army's included, and nothing is left to continue with.
\* Otherwise, for an army bound for another node, one new army with the
\* arrived army's troops leaves the node for that destination, unless an
\* enemy army blocks the edge; for an army bound for this node none does.
\* (A node that is under attack in the same tick loses troops to it: the
\* troop counts are then bounds.)
C23_FriendlyArrival ==
    call.op = "tick" =>
        \A a \in FriendlyArrivals :
            LET n == a.to
                total == pre.nodes[n].troops + a.troops + Production(n)
                order == pre.nodes[n].assign
                orderSent == /\ order # Undefined
                             /\ tickNumber % AssignPeriod = 0
                             /\ ~Blocked(n, order)
                contSent == /\ ~orderSent
                            /\ a.finalDest # n
                            /\ ~Blocked(n, a.finalDest)
                sent(to, most) ==
                    {[MapArmy(n, to, troops, a.team, to, pre.armyCounter)
                        EXCEPT !.id = id] :
                        id \in pre.armyCounter..(armyCounter - 1), troops \in 1..most}
                troopsSent == IF NewFrom(n) = {} THEN 0
                              ELSE (CHOOSE b \in NewFrom(n) : TRUE).troops
            IN  /\ a.id \notin Ids(armies)
                /\ orderSent =>
                      /\ Cardinality(NewFrom(n)) = 1
                      /\ NewFrom(n) \subseteq sent(order, total)
                      /\ nodes[n].troops = 0
                /\ contSent =>
                      /\ Cardinality(NewFrom(n)) = 1
                      /\ NewFrom(n) \subseteq sent(a.finalDest, a.troops)
                /\ (~orderSent /\ ~contSent) => NewFrom(n) = {}
                /\ ~Besieged(n) =>
                      /\ nodes[n].troops + troopsSent = total
                      /\ orderSent => troopsSent = total
                      /\ contSent => troopsSent = a.troops

\* C23 witness: on a tick whose number is a multiple of AssignPeriod an army
\* of 30 troops bound for node 0 arrived at node 2, which had no standing
\* order, and a new army of 30 troops has left node 2 for node 0.
C23_Witness ==
    /\ call.op = "tick"
    /\ tickNumber % AssignPeriod = 0
    /\ \E a \in FriendlyArrivals :
          /\ a.to = 2 /\ a.finalDest = 0 /\ a.troops = 30
          /\ pre.nodes[2].assign = Undefined
          /\ \E b \in NewFrom(2) : b.to = 0 /\ b.finalDest = 0 /\ b.troops = 30
          /\ nodes[2].troops = pre.nodes[2].troops + 1

\* army b is directly ahead of army a: same edge, same direction, progress
\* exactly one greater
DirectlyAhead(a, b) ==
    b.from = a.from /\ b.to = a.to /\ b.distance = a.distance + 1

\* army b is an enemy of army a coming the other way, and their progresses
\* add up to the edge length - 1
ComingAtIt(a, b) ==
    /\ b.from = a.to /\ b.to = a.from
    /\ b.team # a.team
    /\ a.distance + b.distance = intDistance(a.from, a.to) - 1

\* troop counts x and y have become x2 and y2 by one battle
Fought(x, y, x2, y2) ==
    IF x > 0 /\ y > 0 THEN x2 < x /\ y2 < y
    ELSE x2 = Max(x, 0) /\ y2 = Max(y, 0)

\* the pass of the loop of MapArmy.tick just taken was for an army in transit
TransitStep ==
    /\ call.op = "armyStep"
    /\ pre.armies[call.i].distance
           < intDistance(pre.armies[call.i].from, pre.armies[call.i].to)

\* C24: a pass of the loop for an army in transit does exactly one thing.  If
\* no army is directly ahead and no enemy comes at it head-on, it advances
\* the army by 1 and changes nothing else.  Otherwise the army stays where it
\* is and, with one of those armies, either merges into it (directly ahead,
\* same team, same final destination: the army's troops go to the other) or
\* fights it (directly ahead with another team or final destination, or
\* head-on); no third army and no node changes.
C24_TransitStep ==
    TransitStep =>
        LET i == call.i
            a == pre.armies[i]
            hits == {j \in 1..Len(pre.armies) :
                       DirectlyAhead(a, pre.armies[j]) \/ ComingAtIt(a, pre.armies[j])}
            merges(j) == /\ DirectlyAhead(a, pre.armies[j])
                         /\ pre.armies[j].team = a.team
                         /\ pre.armies[j].finalDest = a.finalDest
            onlyTroops(j) ==
                /\ armies[i] = [a EXCEPT !.troops = armies[i].troops]
                /\ armies[j] = [pre.armies[j] EXCEPT !.troops = armies[j].troops]
                /\ \A k \in 1..Len(armies) : k \notin {i, j} => armies[k] = pre.armies[k]
        IN  /\ Len(armies) = Len(pre.armies)
            /\ nodes = pre.nodes
            /\ IF hits = {}
               THEN armies = [pre.armies EXCEPT ![i].distance = a.distance + 1]
               ELSE \E j \in hits :
                      /\ onlyTroops(j)
                      /\ IF merges(j)
                         THEN /\ armies[i].troops = 0
                              /\ armies[j].troops = pre.armies[j].troops + a.troops
                         ELSE Fought(a.troops, pre.armies[j].troops,
                                     armies[i].troops, armies[j].troops)

\* C24 witness: the pass for an army of team 1 bound for node 1, directly
\* behind an army of team 1 bound for node 0, has made the two fight: both
\* have fewer troops and neither has moved.
C24_Witness ==
    /\ TransitStep
    /\ \E j \in 1..Len(armies) :
          /\ DirectlyAhead(pre.armies[call.i], pre.armies[j])
          /\ pre.armies[j].team = pre.armies[call.i].team
          /\ pre.armies[j].finalDest # pre.armies[call.i].finalDest
          /\ armies[j].troops < pre.armies[j].troops
          /\ armies[call.i].troops < pre.armies[call.i].troops
          /\ armies[call.i].distance = pre.armies[call.i].distance

\* army t of the game before the call can collide with army x, or x with t,
\* in the tick: it is on x's edge in x's direction, level with x or directly
\* ahead of it, or it is an enemy coming the other way with at most one
\* step left between the two
Interferes(t, x) ==
    \/ /\ t.from = x.from /\ t.to = x.to
       /\ t.distance \in {x.distance, x.distance + 1}
    \/ /\ t.from = x.to /\ t.to = x.from
       /\ t.team # x.team
       /\ t.distance + x.distance
              \in {intDistance(x.from, x.to) - 2, intDistance(x.from, x.to) - 1}

\* the pairs <<leader, follower>> of armies with troops of the game before
\* the call: the follower directly behind the leader, the leader in transit,
\* and no third army that can collide with either in the tick
Columns ==
    LET as == {pre.armies[i] : i \in 1..Len(pre.armies)}
    IN  {p \in as \X as :
           /\ p[1].troops > 0 /\ p[2].troops > 0
           /\ DirectlyAhead(p[2], p[1])
           /\ p[1].distance < intDistance(p[1].from, p[1].to)
           /\ \A t \in as : t.id \notin {p[1].id, p[2].id} =>
                  ~Interferes(t, p[1]) /\ ~Interferes(t, p[2])}

\* the army is listed after the call one step further, with the same troops
Advanced(a) ==
    \E i \in 1..Len(armies) :
        armies[i] = [a EXCEPT !.distance = a.distance + 1]

\* C25: when a follower is directly behind a leader that is in transit, on
\* the same edge in the same direction, and no third army collides with
\* either of them, a tick advances both by 1 and leaves both their troops:
\* the leader is processed first, so the follower does not collide with it.
C25_FollowerDoesNotCollide ==
    call.op = "tick" => \A p \in Columns : Advanced(p[1]) /\ Advanced(p[2])

\* C25 witness: the tick advanced a leader and its follower, of one team and
\* with one final destination, the follower coming before the leader in the
\* list of armies, past a third army at the far end of their edge.
C25_Witness ==
    /\ call.op = "tick"
    /\ \E p \in Columns :
          /\ Advanced(p[1]) /\ Advanced(p[2])
          /\ p[1].team = p[2].team
          /\ p[1].finalDest = p[2].finalDest
          /\ \E i, j \in 1..Len(pre.armies) :
                i < j /\ pre.armies[i] = p[2] /\ pre.armies[j] = p[1]
          /\ \E i \in 1..Len(pre.armies) :
                pre.armies[i].from = p[1].to /\ pre.armies[i].to = p[1].from

\* C26: after every Game.tick() no node is flagged as attacked, and a node
\* that an army of another team attacked in the tick got no production:
\* a node that held has fewer troops than before, a node left neutral has
\* none, a captured node has no more than the troops of the army (fewer, if
\* the node had troops to fight with).
C26_NoProductionUnderAttack ==
    call.op = "tick" =>
        /\ \A n \in Nodes : ~nodes[n].wasAttacked
        /\ \A a \in Besiegers :
              LET before == pre.nodes[a.to]
                  after == nodes[a.to]
              IN  IF after.team = before.team /\ before.troops > 0
                  THEN after.troops < before.troops
                  ELSE IF after.team = a.team
                  THEN /\ after.troops <= a.troops
                       /\ before.troops > 0 => after.troops < a.troops
                  ELSE after.team = Neutral /\ after.troops = 0

\* C26 witness: on an even tick an army of 100 troops took a node that had no
\* troops, and the node has 100 troops, not 101.
C26_Witness ==
    /\ call.op = "tick"
    /\ tickNumber % 2 = 0
    /\ \E a \in Besiegers :
          /\ a.troops = 100
          /\ pre.nodes[a.to].troops = 0
          /\ nodes[a.to].team = a.team
          /\ nodes[a.to].troops = 100
          /\ ~nodes[a.to].wasAttacked

\* no army of the game before the call was at the end of an edge into node n
Unvisited(n) == \A a \in AtEnd : a.to # n

\* the troops of the armies the call created at node n (at most one, when no
\* army arrived there)
TroopsSentFrom(n) ==
    IF NewFrom(n) = {} THEN 0 ELSE (CHOOSE b \in NewFrom(n) : TRUE).troops

\* C27: on an odd tick number no node's troops change through production.
\* On an even tick number every node that was not attacked gains 2 * (1 +
\* the number of adjacent nodes of its owner with a PowerPlant) troops if it
\* has a Factory and 1 troop otherwise, neutral nodes too.  (Troops a
\* standing order sends off in the tick are counted with the node's.)
C27_Production ==
    call.op = "tick" =>
        \A n \in Nodes :
            Unvisited(n) =>
                LET gain == nodes[n].troops + TroopsSentFrom(n) - pre.nodes[n].troops
                    plants == Cardinality({m \in Adj(n) :
                                  /\ nodes[m].team = nodes[n].team
                                  /\ nodes[m].type = PowerPlant})
                IN  /\ Cardinality(NewFrom(n)) <= 1
                    /\ gain = IF tickNumber % 2 # 0 THEN 0
                              ELSE IF nodes[n].type = Factory THEN 2 * (1 + plants)
                              ELSE 1

\* C27 witness: on an even tick a Factory of team 1 between two PowerPlants
\* of team 1 has gained 6 troops, a Factory of team 2 beside a PowerPlant of
\* team 1 has gained 2, and the PowerPlants 1 each.
C27_Witness ==
    /\ call.op = "tick"
    /\ tickNumber % 2 = 0
    /\ \A n \in Nodes : Unvisited(n)
    /\ nodes[2].type = Factory /\ nodes[2].troops = pre.nodes[2].troops + 6
    /\ nodes[0].type = Factory /\ nodes[0].troops = pre.nodes[0].troops + 2
    /\ nodes[1].type = PowerPlant /\ nodes[1].troops = pre.nodes[1].troops + 1
    /\ nodes[3].type = PowerPlant /\ nodes[3].troops = pre.nodes[3].troops + 1

\* the nodes that had a standing order before the call and at which no army
\* of their team arrived in the tick (so that no continuation leaves them)
Ordered ==
    {n \in Nodes : /\ pre.nodes[n].assign # Undefined
                   /\ \A a \in AtEnd : a.to = n => a.team # pre.nodes[n].team}

\* C28: on a tick whose number is a multiple of AssignPeriod, for each node
\* with a standing order either one army with all the node's troops (this
\* tick's production included) has left for the order's target, the node has
\* 0 troops and the order stands, or no army has left and the order is
\* cleared; the order is cleared for a neutral node and when the edge is
\* blocked, and carried out when the node was not attacked, is not neutral,
\* and the target is a neighbour that is not blocked.  On the other ticks no
\* army leaves the node and the order stands, unless the node fell.
C28_StandingOrders ==
    call.op = "tick" =>
        \A n \in Ordered :
            LET order == pre.nodes[n].assign
                carried ==
                    /\ Cardinality(NewFrom(n)) = 1
                    /\ \A b \in NewFrom(n) :
                          /\ b.finalDest = order
                          /\ b.team = nodes[n].team
                          /\ b.distance = 0
                          /\ b.troops >= 1
                          /\ ~Besieged(n) =>
                                b.troops = pre.nodes[n].troops + Production(n)
                    /\ nodes[n].troops = 0
                    /\ nodes[n].assign = order
                cleared == NewFrom(n) = {} /\ nodes[n].assign = Undefined
                fell == /\ Besieged(n)
                        /\ \/ nodes[n].team # pre.nodes[n].team
                           \/ nodes[n].troops = 0
            IN  IF tickNumber % AssignPeriod = 0
                THEN /\ carried \/ cleared
                     /\ nodes[n].team = Neutral => cleared
                     /\ Blocked(n, order) => cleared
                     /\ (/\ ~Besieged(n)
                         /\ nodes[n].team # Neutral
                         /\ order \in Adj(n)
                         /\ ~Blocked(n, order)) => carried
                ELSE /\ NewFrom(n) = {}
                     /\ IF fell THEN nodes[n].assign = Undefined
                        ELSE nodes[n].assign = order

\* C28 witness: on a tick whose number is a multiple of AssignPeriod the
\* Factory at node 2 has sent all its troops towards node 0 and kept its
\* order, while node 0's order for node 2 is cleared, an army of team 1
\* standing before node 0 at the end of the edge from node 2.
C28_Witness ==
    /\ call.op = "tick"
    /\ tickNumber % AssignPeriod = 0
    /\ {0, 2} \subseteq Ordered
    /\ pre.nodes[2].type = Factory
    /\ \E b \in NewFrom(2) : b.finalDest = 0 /\ b.troops > pre.nodes[2].troops
    /\ nodes[2].troops = 0 /\ nodes[2].assign = 0
    /\ Blocked(0, 2)
    /\ NewFrom(0) = {} /\ nodes[0].assign = Undefined /\ nodes[0].team = 2

\* MapArmy.battle has just returned for two unequal pools with troops
UnequalBattle ==
    /\ call.op = "battle"
    /\ call.troopsA > 0 /\ call.troopsB > 0
    /\ call.troopsA # call.troopsB

\* Math.ceil(size / 80 * (0.9 + 0.2 * Math.random()) * num / den * mult),
\* the first Math.random() of the call being k / RandSteps
LossOf(size, num, den, mult, k) ==
    Ceil(size * num * (9 * RandSteps + 2 * k) * mult[1],
         80 * den * 10 * RandSteps * mult[2])

\* the larger and the smaller pool of the call, their multipliers and what
\* the call took from them
Larger ==
    IF call.troopsA > call.troopsB
    THEN [size |-> call.troopsA, mult |-> call.multA, lost |-> call.troopsA - call.ret[1]]
    ELSE [size |-> call.troopsB, mult |-> call.multB, lost |-> call.troopsB - call.ret[2]]

Smaller ==
    IF call.troopsA > call.troopsB
    THEN [size |-> call.troopsB, mult |-> call.multB, lost |-> call.troopsB - call.ret[2]]
    ELSE [size |-> call.troopsA, mult |-> call.multA, lost |-> call.troopsA - call.ret[1]]

\* C29 as stated: between two unequal pools the smaller pool's raw loss is
\* computed from its own size (size / 80 times the random factor) and the
\* larger pool's raw loss is that, multiplied by larger / smaller.
C29_Original ==
    UnequalBattle =>
        /\ Smaller.lost = LossOf(Smaller.size, 1, 1, Smaller.mult, call.r[1])
        /\ Larger.lost = LossOf(Smaller.size, Larger.size, Smaller.size,
                                Larger.mult, call.r[1])

\* C29 amended: between two unequal pools the larger pool's raw loss is
\* computed from its own size (size / 80 times a factor in [0.9, 1.1]) and
\* the smaller pool's raw loss is the larger pool's raw loss multiplied by
\* larger / smaller; each is multiplied by the pool's multiplier and
\* rounded up.
C29_LossFromLargerPool ==
    UnequalBattle =>
        /\ Larger.lost = LossOf(Larger.size, 1, 1, Larger.mult, call.r[1])
        /\ Smaller.lost = LossOf(Larger.size, Larger.size, Smaller.size,
                                 Smaller.mult, call.r[1])

\* C29 witness: battle(30, 100, 1, 1) with the factor 0.9 has returned 26 and
\* 98: 1.125 rounded up for the 100, 1.125 * 100 / 30 = 3.75 rounded up for
\* the 30.
C29_Witness ==
    /\ UnequalBattle
    /\ call.troopsA = 30 /\ call.troopsB = 100
    /\ call.multA = <<2, 2>> /\ call.multB = <<2, 2>>
    /\ call.r[1] = 0
    /\ call.ret = <<26, 98>>

\* C30 as stated: MapArmy.battle never returns a troop count larger than the
\* corresponding input; two pools with troops each lose at least 1; when
\* either input is <= 0 each input is returned clamped to at least 0.
C30_Original ==
    call.op = "battle" =>
        /\ call.ret[1] <= call.troopsA /\ call.ret[2] <= call.troopsB
        /\ (call.troopsA > 0 /\ call.troopsB > 0) =>
              call.ret[1] <= call.troopsA - 1 /\ call.ret[2] <= call.troopsB - 1
        /\ (call.troopsA <= 0 \/ call.troopsB <= 0) =>
              call.ret = <<Max(call.troopsA, 0), Max(call.troopsB, 0)>>

\* C30 amended: MapArmy.battle never returns a troop count larger than the
\* corresponding input when that input is at least 0, and returns 0 for a
\* negative input; two pools with troops each lose at least 1, for each of
\* the multipliers 0.5, 1 and 2; when either input is <= 0 no losses are
\* applied and each input is returned clamped to at least 0.
C30_LossesNeverNegative ==
    call.op = "battle" =>
        /\ call.ret[1] <= Max(call.troopsA, 0) /\ call.ret[2] <= Max(call.troopsB, 0)
        /\ (call.troopsA > 0 /\ call.troopsB > 0) =>
              call.ret[1] <= call.troopsA - 1 /\ call.ret[2] <= call.troopsB - 1
        /\ (call.troopsA <= 0 \/ call.troopsB <= 0) =>
              call.ret = <<Max(call.troopsA, 0), Max(call.troopsB, 0)>>

\* C30 witness: battle(7, 7, 0.5, 2) has returned 6 and 6, each pool losing
\* 1 for a raw loss below 1, and battle(-3, 30, 1, 1) has returned 0 and 30
\* in another call.
C30_Witness ==
    /\ call.op = "battle"
    /\ call.troopsA = 7 /\ call.troopsB = 7
    /\ call.multA = <<1, 2>> /\ call.multB = <<4, 2>>
    /\ call.ret = <<6, 6>>
    /\ battle(-3, 30, <<2, 2>>, <<2, 2>>, call.r) = <<0, 30>>

\* the armies created by the call that has just returned
Created == {armies[i] : i \in {k \in 1..Len(armies) : armies[k].id >= pre.armyCounter}}

\* C31: in every reachable state every army's next hop is a node adjacent to
\* its origin and different from it, and when a sendArmy or a tick has just
\* created an army, its next hop is its final destination or a node owned by
\* the army's team.
C31_NextHopIsNeighbour ==
    /\ \A i \in 1..Len(armies) :
          /\ armies[i].to \in Adj(armies[i].from)
          /\ armies[i].to # armies[i].from
    /\ call.op \in {"sendArmy", "tick"} =>
          \A a \in Created :
              a.to = a.finalDest \/ nodes[a.to].team = a.team

\* C31 witness: sendArmy has created an army whose final destination is not
\* adjacent to its origin, heading for a node of its own team first.
C31_Witness ==
    /\ call.op = "sendArmy"
    /\ call.ret
    /\ \E a \in Created :
          /\ a.finalDest \notin Adj(a.from)
          /\ a.to # a.finalDest
          /\ a.to \in Adj(a.from)
          /\ nodes[a.to].team = a.team

\* before the tick, army x stood at the end of its edge into node n, which
\* its team held, bound for another node: MapArmy.tick merges it into n and
\* lists a continuation from n
MergedOnward(x, n) ==
    /\ x.to = n
    /\ x.distance = intDistance(x.from, x.to)
    /\ x.team = pre.nodes[n].team
    /\ x.finalDest # n

\* C32: when the node at which an army merged is captured by another team
\* later in the same tick, the continuation submitted at the end of the tick
\* takes no troops from the new owner and creates no army for the new owner.
C32_ContinuationForArrivingTeam ==
    call.op = "tick" =>
        \A n \in Nodes : \A i \in 1..Len(pre.armies) :
            (/\ MergedOnward(pre.armies[i], n)
             /\ nodes[n].team # pre.armies[i].team)
            => ~ \E a \in Created : a.from = n /\ a.team = nodes[n].team

\* C33: in every reachable state a node that has a standing-order target is
\* owned by a non-neutral team; forfeit and capture leave no standing order
\* on a node that became neutral.
C33_OrdersOnlyOnOwnedNodes ==
    \A n \in Nodes : nodes[n].assign # Undefined => nodes[n].team # Neutral

\* the pass of the loop just taken has merged its army, which had troops,
\* into army j directly ahead of it (same team, same final destination)
MergedInto(j) ==
    /\ TransitStep
    /\ pre.armies[call.i].troops > 0
    /\ DirectlyAhead(pre.armies[call.i], pre.armies[j])
    /\ pre.armies[j].team = pre.armies[call.i].team
    /\ pre.armies[j].finalDest = pre.armies[call.i].finalDest
    /\ armies[call.i].troops = 0
    /\ armies[j].troops # pre.armies[j].troops

\* C34: a friendly tail merge never destroys troops: right after army Y has
\* merged into the army X directly ahead of it, X has at least the troops Y
\* had, also when X arrived or was left without troops earlier in the tick.
C34_MergeKeepsTroops ==
    \A j \in 1..Len(armies) :
        (j <= Len(pre.armies) /\ call.op = "armyStep" /\ MergedInto(j))
            => armies[j].troops >= pre.armies[call.i].troops

\* C35: within one tick a pair of armies in head-on collision resolves
\* combat against each other at most once: each of two armies of 100 troops,
\* alone on their edge, loses at most what one application of the loss
\* formula can take from it (100 / 80 * 1.1, doubled by an Artillery,
\* rounded up).
C35_HeadOnFightsOncePerTick ==
    call.op = "tick" =>
        \A p \in HeadOnPairs :
            /\ 100 - TroopsAfter(p[1]) <= LossOf(100, 1, 1, <<4, 2>>, RandSteps)
            /\ 100 - TroopsAfter(p[2]) <= LossOf(100, 1, 1, <<4, 2>>, RandSteps)

\* the ids armies can have under LiveSpec
LiveIds == 0..(LiveFirstId + MaxIds - 1)

\* an army with this id is in the active set
Present(id) == \E i \in 1..Len(armies) : armies[i].id = id

\* the tick that has just returned began with a follower of the army's own
\* team and final destination, with troops, directly behind the army with
\* this id: MapArmy.tick merges the follower into it
Reinforced(id) ==
    /\ call.op = "tick"
    /\ \E i, j \in 1..Len(pre.armies) :
          /\ pre.armies[i].id = id
          /\ DirectlyAhead(pre.armies[j], pre.armies[i])
          /\ pre.armies[j].team = pre.armies[i].team
          /\ pre.armies[j].finalDest = pre.armies[i].finalDest
          /\ pre.armies[j].troops > 0

\* C36 as stated: while tick() keeps being called and no player sends an
\* army, every army in the active set is eventually removed from it.
C36_Original ==
    \A id \in LiveIds : Present(id) ~> ~Present(id)

\* C36 amended: while tick() keeps being called and no player sends an
\* army, every army in the active set is eventually removed from it or
\* receives the troops of a follower that merges into it; only an army that
\* followers keep merging into stays in a siege or a collision for ever.
C36_ArmiesLeaveUnlessReinforced ==
    \A id \in LiveIds : Present(id) ~> (~Present(id) \/ Reinforced(id))

\* C36 witness: the tick has removed an army that stood at the end of its
\* edge against a node of another owner, which still has that owner, and
\* that no follower merged into.
C36_Witness ==
    /\ call.op = "tick"
    /\ \E i \in 1..Len(pre.armies) :
          LET a == pre.armies[i]
          IN  /\ a.distance = intDistance(a.from, a.to)
              /\ a.troops > 0
              /\ pre.nodes[a.to].team # a.team
              /\ nodes[a.to].team = pre.nodes[a.to].team
              /\ ~Present(a.id)
              /\ ~Reinforced(a.id)

\* team t owns no node and no army of game g
Eliminated(g, t) ==
    /\ \A n \in Nodes : g.nodes[n].team # t
    /\ \A i \in 1..Len(g.armies) : g.armies[i].team # t

\* C37: a forfeited team stays eliminated: forfeit(team) leaves the team no
\* node and no army, and a tick or a command issued for another team leaves
\* a team that owned no node and no army before it none after it.
C37_ForfeitedTeamStaysOut ==
    /\ (call.op = "forfeit" /\ call.ret) => Eliminated(Cur, call.team)
    /\ \A t \in Teams \ {Neutral} :
          (/\ Eliminated(pre, t)
           /\ call.op = "tick" \/ (call.op \in Commands /\ call.team # t))
              => Eliminated(Cur, t)

\* C37 witness: a team had forfeited with a standing order on one of its
\* nodes; the tick whose number is a multiple of AssignPeriod has now found
\* that order on the neutral node and cleared it, and the team still owns
\* nothing.
C37_Witness ==
    /\ call.op = "tick"
    /\ tickNumber % AssignPeriod = 0
    /\ \E t \in Teams \ {Neutral} :
          /\ Eliminated(pre, t)
          /\ Eliminated(Cur, t)
    /\ \E n \in Nodes :
          /\ pre.nodes[n].team = Neutral
          /\ pre.nodes[n].assign # Undefined
          /\ nodes[n].assign = Undefined

\* the array without x
without(array, x) == SelectSeq(array, LAMBDA y : y # x)

\* the rooms of the manager's list that have the player as a player or as a
\* spectator
RoomsOf(player) ==
    {i \in 1..Len(roomManager.rooms) :
        \/ includes(roomManager.room[roomManager.rooms[i]].players, player)
        \/ includes(roomManager.room[roomManager.rooms[i]].spectators, player)}

\* C38: after removePlayer(p), here the one leaveRoom calls, p is in neither
\* the players nor the spectators of the room, and unless the room stopped
\* because its last player left, the others of both lists are as they were;
\* and no player is a member of two rooms of the manager's list.
C38_RemovedAndInOneRoom ==
    /\ (call.op = "leaveRoom" /\ call.room # Undefined) =>
          LET before == pre.room[call.room]
              after == roomManager.room[call.room]
              stops == before.isLaunched /\ before.players = <<call.player>>
          IN  /\ ~includes(after.players, call.player)
              /\ ~includes(after.spectators, call.player)
              /\ ~stops => /\ after.players = without(before.players, call.player)
                           /\ after.spectators = without(before.spectators, call.player)
    /\ \A player \in Sockets : Cardinality(RoomsOf(player)) <= 1

\* the teams of the players of a room
TeamsOf(m, rid) ==
    {m.team[m.room[rid].players[i]] : i \in 1..Len(m.room[rid].players)}

\* C39: before the game of a room is launched, no two of its players have
\* the same team, and when startRoom launches it the players' teams are
\* exactly 1..players.length.
C39_TeamsDistinct ==
    \A rid \in 1..Len(roomManager.room) :
        LET r == roomManager.room[rid]
        IN  /\ ~r.isLaunched =>
                  \A i, j \in 1..Len(r.players) :
                      i # j => roomManager.team[r.players[i]] # roomManager.team[r.players[j]]
            /\ (call.op = "startRoom" /\ ~pre.room[rid].isLaunched /\ r.isLaunched) =>
                  TeamsOf(roomManager, rid) = 1..Len(r.players)

=============================================================================
